---- MODULE Spec2Model ----
(***************************************************************************)
(* Letterboxd review-card service: the render engine (browser singleton    *)
(* and page pool of playwright-renderer.ts), the TTL/LRU cache of cache.ts *)
(* and the metadata session cache.                                         *)
(*                                                                         *)
(* Asynchronous functions are modelled at await granularity: the code      *)
(* between two awaits of one call is one atomic action, and calls          *)
(* interleave only at awaits (the JavaScript event loop).                  *)
(***************************************************************************)
EXTENDS Integers, Sequences, FiniteSets, TLC

\* ------------------------------------------------------------------ bounds
\* Callers (render calls and health checks) in the other engine specifications.
MaxCalls == 3
\* chromium.launch calls (engine ids are launch ids).
MaxLaunch == 3
\* closeBrowser invocations.
MaxClose == 1
\* Outcomes of Math.random() in a session id, and metadata values.
NRand == 2
NMeta == 2
\* cacheMetadata calls.
MaxIssued == 2
\* Largest maxEntries a Cache is constructed with.
MaxCap == 2
\* Cache keys: one more than the largest capacity.
NKeys == MaxCap + 1
\* The clock: MaxMs single milliseconds before a jump of one TTL less a
\* millisecond, and up to one TTL and MaxMs after it.
MaxMs == 1
\* Admissions of one client beyond RATE_LIMIT.
MaxOver == 2
\* Render requests handled at once, and received in all.
MaxInFlight == 1
MaxArrive == 3
\* Admissions left in the client's rate-limit window when the render route
\* is first observed.
MaxLeft == 2

\* ------------------------------------------------------- program constants
MAX_PAGES == 5
\* Render calls in the page-pool specification: one more than MAX_PAGES, so
\* that a release finds the pool at capacity.
NCalls == MAX_PAGES + 1
DEFAULT_TTL == 60 * 60 * 1000
MAX_RETRIES == 2
RETRY_DELAY_MS == 1000
FETCH_TIMEOUT_MS == 10000
CACHE_TTL == 30 * 60 * 1000

Callers == 1..NCalls
Engines == 1..MaxLaunch
\* A page is named after the call that created it (a call creates at most one).
Pages == Callers

VARIABLES
    browserInstance,      \* 0 (null) or the engine held by the singleton
    browserInitPromise,   \* 0 (null) or the launch whose promise is stored
    launch,               \* launch -> "none" | "pending" | "ok" | "failed"
    connected,            \* engine -> isConnected()
    handler,              \* engines with the 'disconnected' handler registered
    pagePool,             \* sequence of pages (pop and push at the end)
    pageBrowser,          \* page -> 0 (not created) or the engine that owns it
    pageClosed,           \* page -> isClosed()
    kind,                 \* caller -> "none" | "render" | "health"
    pc,                   \* caller -> position in renderToImage / checkBrowserHealth
    waitOn,               \* caller -> launch whose promise getBrowser awaits (0: none)
    browser,              \* caller -> local `browser` (0: unset)
    page,                 \* caller -> local `page` (0: unset)
    pending,              \* caller -> outcome held while the finally block awaits
    result,               \* outcome of the call that settled last ("none": no call
                          \* has settled), as handed to its caller
    cpc,                  \* closeBrowser: "idle" | "awaitClose"
    closing,              \* engine whose close() closeBrowser awaits (0: none)
    nClose,               \* closeBrowser invocations so far
    now,                  \* Date.now()
    ttl,                  \* Cache.ttl
    maxEntries,           \* Cache.maxEntries
    store,                \* Cache.store: the Map's entries in insertion order
    evicted,              \* the place in the Map of the entry the last set evicted (0: none)
    metadataCache,        \* the session Map: session id -> [metadata, timestamp]
    issued,               \* the session ids cacheMetadata has returned
    nIssued,              \* cacheMetadata calls so far
    answer,               \* what the last render-from-metadata request was answered
    uInput,               \* normalizeUrl: the string it was called with
    uPc,                  \* normalizeUrl: "start" | "fetch" | "done"
    uResult,              \* normalizeUrl: the URL it returned or the code it threw
    uFetches,             \* fetch calls made by the current normalizeUrl call
    uResp,                \* what fetch answered to the current call
    uFirst,               \* the result of the call whose result is normalized again
    requestCounts,        \* the rate limiter's Map: client -> [count, resetAt]
    admitted,             \* client -> the times at which checkRateLimit returned true
    rpc,                  \* render request -> "idle" | "body" | "normalize" | "parse" |
                          \* "render" | "done": the await POST is suspended at
    req,                  \* render request -> the request POST was called with
    normalizedUrl,        \* render request -> local `normalizedUrl` (<<>>: unset)
    called,               \* render request -> the collaborators POST has called
    rans,                 \* render request -> the response POST returned
    nArrived,             \* render requests received so far
    ppc,                  \* parse request: "idle" | "body" | "normalize" | "page" |
                          \* "tmdb" | "poster" | "avatar" | "done", the await it is
                          \* suspended at ("extract" | "extracted": extractMetadata
                          \* alone, before and after it ran)
    pBody,                \* parse request: the body POST was called with
    eUrl,                 \* the url extractMetadata / parseReview is called with
    markup,               \* the page fetched
    extracted,            \* what extractMetadata returned
    pMetadata,            \* parseReview's local `metadata`
    pSeen,                \* how the image fetches of the parseReview call settled
    pAnswer,              \* parse request: the response POST returned
    tmdb                  \* the searchMovie call in progress

engineVars == <<browserInstance, browserInitPromise, launch, connected, handler,
                pagePool, pageBrowser, pageClosed, kind, pc, waitOn, browser,
                page, pending, result, cpc, closing, nClose>>

cacheVars == <<ttl, maxEntries, store, evicted>>
sessionVars == <<metadataCache, issued, nIssued, answer>>
urlVars == <<uInput, uPc, uResult, uFetches, uResp, uFirst>>
rateVars == <<requestCounts, admitted>>
routeVars == <<rpc, req, normalizedUrl, called, rans, nArrived>>
parseVars == <<ppc, pBody, eUrl, markup, extracted, pMetadata, pSeen, pAnswer>>

vars == <<engineVars, now, cacheVars, sessionVars, urlVars, rateVars, routeVars,
          parseVars, tmdb>>
nonEngineVars == <<now, cacheVars, sessionVars, urlVars, rateVars, routeVars,
                   parseVars, tmdb>>
nonCacheVars == <<engineVars, sessionVars, urlVars, rateVars, routeVars,
                  parseVars, tmdb>>
nonSessionVars == <<engineVars, cacheVars, urlVars, rateVars, routeVars,
                    parseVars, tmdb>>
nonUrlVars == <<engineVars, now, cacheVars, sessionVars, rateVars, routeVars,
                parseVars, tmdb>>
nonRateVars == <<engineVars, cacheVars, sessionVars, urlVars, routeVars,
                 parseVars, tmdb>>
nonRouteVars == <<engineVars, ttl, maxEntries, sessionVars, urlVars, admitted,
                  parseVars, tmdb>>
nonParseVars == <<engineVars, now, cacheVars, sessionVars, urlVars, rateVars,
                  routeVars, tmdb>>
nonTmdbVars == <<engineVars, now, cacheVars, sessionVars, urlVars, rateVars,
                 routeVars, parseVars>>

\* ------------------------------------------------------------ helpers
nLaunch == Cardinality({l \in Engines : launch[l] # "none"})
nStarted == Cardinality({c \in Callers : kind[c] # "none"})
PoolSet == {pagePool[i] : i \in 1..Len(pagePool)}

EngineInit ==
    /\ browserInstance = 0
    /\ browserInitPromise = 0
    /\ launch = [l \in Engines |-> "none"]
    /\ connected = [l \in Engines |-> FALSE]
    /\ handler = {}
    /\ pagePool = <<>>
    /\ pageBrowser = [p \in Pages |-> 0]
    /\ pageClosed = [p \in Pages |-> FALSE]
    /\ kind = [c \in Callers |-> "none"]
    /\ pc = [c \in Callers |-> "idle"]
    /\ waitOn = [c \in Callers |-> 0]
    /\ browser = [c \in Callers |-> 0]
    /\ page = [c \in Callers |-> 0]
    /\ pending = [c \in Callers |-> "none"]
    /\ result = "none"
    /\ cpc = "idle"
    /\ closing = 0
    /\ nClose = 0

\* ------------------------------------------------------------ getBrowser
\* Mutant of GetBrowser: the stored launch promise is not consulted.
GetBrowserNoPromiseCheck(c) ==
    IF browserInstance # 0 /\ connected[browserInstance]
    THEN /\ browser' = [browser EXCEPT ![c] = browserInstance]
         /\ pc' = [pc EXCEPT ![c] = "gotBrowser"]
         /\ UNCHANGED <<browserInitPromise, launch, waitOn>>
    ELSE /\ nLaunch < MaxLaunch
         /\ launch' = [launch EXCEPT ![nLaunch + 1] = "pending"]
         /\ browserInitPromise' = nLaunch + 1
         /\ waitOn' = [waitOn EXCEPT ![c] = nLaunch + 1]
         /\ pc' = [pc EXCEPT ![c] = "awaitLaunch"]
         /\ UNCHANGED browser

\* The synchronous part of getBrowser, up to its first await (or return).
GetBrowser(c) ==
    IF browserInstance # 0 /\ connected[browserInstance]
    THEN /\ browser' = [browser EXCEPT ![c] = browserInstance]
         /\ pc' = [pc EXCEPT ![c] = "gotBrowser"]
         /\ UNCHANGED <<browserInitPromise, launch, waitOn>>
    ELSE IF browserInitPromise # 0
    THEN /\ waitOn' = [waitOn EXCEPT ![c] = browserInitPromise]
         /\ pc' = [pc EXCEPT ![c] = "awaitInit"]
         /\ UNCHANGED <<browserInitPromise, launch, browser>>
    ELSE /\ nLaunch < MaxLaunch
         /\ launch' = [launch EXCEPT ![nLaunch + 1] = "pending"]
         /\ browserInitPromise' = nLaunch + 1
         /\ waitOn' = [waitOn EXCEPT ![c] = nLaunch + 1]
         /\ pc' = [pc EXCEPT ![c] = "awaitLaunch"]
         /\ UNCHANGED browser

\* A caller that leaves with an exception or a value: its locals are dropped.
Finish(c, res) ==
    /\ pc' = [pc EXCEPT ![c] = "done"]
    /\ result' = res
    /\ pending' = [pending EXCEPT ![c] = "none"]
    /\ browser' = [browser EXCEPT ![c] = 0]
    /\ page' = [page EXCEPT ![c] = 0]
    /\ waitOn' = [waitOn EXCEPT ![c] = 0]

\* What a caller sees when getBrowser rejects: renderToImage awaits getBrowser
\* outside its try block, checkBrowserHealth catches and returns false.
GetBrowserFailed(c) ==
    Finish(c, IF kind[c] = "render" THEN "LAUNCH_ERROR" ELSE "degraded")

\* renderToImage entry: runs getBrowser up to its first await.
RenderToImage(c) ==
    /\ kind[c] = "none"
    /\ c = nStarted + 1
    /\ kind' = [kind EXCEPT ![c] = "render"]
    /\ GetBrowser(c)
    /\ UNCHANGED <<browserInstance, connected, handler, pagePool, pageBrowser,
                   pageClosed, page, pending, result, cpc, closing, nClose>>
    /\ UNCHANGED nonEngineVars

\* checkBrowserHealth entry: runs getBrowser up to its first await.
CheckBrowserHealth(c) ==
    /\ kind[c] = "none"
    /\ c = nStarted + 1
    /\ kind' = [kind EXCEPT ![c] = "health"]
    /\ GetBrowser(c)
    /\ UNCHANGED <<browserInstance, connected, handler, pagePool, pageBrowser,
                   pageClosed, page, pending, result, cpc, closing, nClose>>
    /\ UNCHANGED nonEngineVars

\* chromium.launch settles: the promise resolves with a connected engine or rejects.
LaunchSettle(l, ok) ==
    /\ launch[l] = "pending"
    /\ launch' = [launch EXCEPT ![l] = IF ok THEN "ok" ELSE "failed"]
    /\ connected' = [connected EXCEPT ![l] = ok]
    /\ UNCHANGED <<browserInstance, browserInitPromise, handler, pagePool,
                   pageBrowser, pageClosed, kind, pc, waitOn, browser, page,
                   pending, result, cpc, closing, nClose>>
    /\ UNCHANGED nonEngineVars

\* The launching caller resumes after `await browserInitPromise` (try/finally).
GetBrowserResume(c) ==
    /\ pc[c] = "awaitLaunch"
    /\ launch[waitOn[c]] \in {"ok", "failed"}
    /\ browserInitPromise' = 0
    /\ IF launch[waitOn[c]] = "ok"
       THEN /\ browserInstance' = waitOn[c]
            /\ handler' = handler \cup {waitOn[c]}
            /\ browser' = [browser EXCEPT ![c] = waitOn[c]]
            /\ pc' = [pc EXCEPT ![c] = "gotBrowser"]
            /\ UNCHANGED <<result, pending, page, waitOn>>
       ELSE /\ GetBrowserFailed(c)
            /\ UNCHANGED <<browserInstance, handler>>
    /\ UNCHANGED <<launch, connected, pagePool, pageBrowser, pageClosed, kind,
                   cpc, closing, nClose>>
    /\ UNCHANGED nonEngineVars

\* A caller that returned the stored promise resumes with its value.
GetBrowserJoin(c) ==
    /\ pc[c] = "awaitInit"
    /\ launch[waitOn[c]] \in {"ok", "failed"}
    /\ IF launch[waitOn[c]] = "ok"
       THEN /\ browser' = [browser EXCEPT ![c] = waitOn[c]]
            /\ pc' = [pc EXCEPT ![c] = "gotBrowser"]
            /\ UNCHANGED <<result, pending, page, waitOn>>
       ELSE GetBrowserFailed(c)
    /\ UNCHANGED <<browserInstance, browserInitPromise, launch, connected,
                   handler, pagePool, pageBrowser, pageClosed, kind, cpc,
                   closing, nClose>>
    /\ UNCHANGED nonEngineVars

\* Mutant of Disconnect: the handler leaves the pool as it is.
DisconnectKeepingPool(e) ==
    /\ e \in handler
    /\ connected[e]
    /\ connected' = [connected EXCEPT ![e] = FALSE]
    /\ pageClosed' = [p \in Pages |-> pageClosed[p] \/ pageBrowser[p] = e]
    /\ browserInstance' = 0
    /\ browserInitPromise' = 0
    /\ UNCHANGED <<launch, handler, pagePool, pageBrowser, kind, pc, waitOn,
                   browser, page, pending, result, cpc, closing, nClose>>
    /\ UNCHANGED nonEngineVars

\* The engine disconnects (crash, or close() called on it): isConnected() turns
\* false and 'disconnected' is emitted in the same synchronous step, the
\* engine's pages are closed, and the handler of getBrowser runs. The handler is
\* registered in the continuation that directly follows the launch's
\* resolution, so no disconnect precedes it.
Disconnect(e) ==
    /\ e \in handler
    /\ connected[e]
    /\ connected' = [connected EXCEPT ![e] = FALSE]
    /\ pageClosed' = [p \in Pages |-> pageClosed[p] \/ pageBrowser[p] = e]
    /\ browserInstance' = 0
    /\ browserInitPromise' = 0
    /\ pagePool' = <<>>
    /\ UNCHANGED <<launch, handler, pageBrowser, kind, pc, waitOn, browser,
                   page, pending, result, cpc, closing, nClose>>
    /\ UNCHANGED nonEngineVars

\* ------------------------------------------------- getPage / releasePage
\* Mutant of GetPage: the pooled page is read but left in the pool.
GetPageNoPop(c) ==
    /\ pc[c] = "gotBrowser"
    /\ kind[c] = "render"
    /\ IF pagePool # <<>> /\ ~pageClosed[pagePool[Len(pagePool)]]
       THEN /\ page' = [page EXCEPT ![c] = pagePool[Len(pagePool)]]
            /\ pc' = [pc EXCEPT ![c] = "render"]
       ELSE /\ pc' = [pc EXCEPT ![c] = "newPage"]
            /\ UNCHANGED page
    /\ UNCHANGED <<browserInstance, browserInitPromise, launch, connected,
                   handler, pagePool, pageBrowser, pageClosed, kind, waitOn,
                   browser, pending, result, cpc, closing, nClose>>
    /\ UNCHANGED nonEngineVars

\* getPage: pop the pool; a live page is returned, otherwise browser.newPage().
GetPage(c) ==
    /\ pc[c] = "gotBrowser"
    /\ kind[c] = "render"
    /\ IF pagePool # <<>>
       THEN /\ pagePool' = SubSeq(pagePool, 1, Len(pagePool) - 1)
            /\ IF ~pageClosed[pagePool[Len(pagePool)]]
               THEN /\ page' = [page EXCEPT ![c] = pagePool[Len(pagePool)]]
                    /\ pc' = [pc EXCEPT ![c] = "render"]
               ELSE /\ pc' = [pc EXCEPT ![c] = "newPage"]
                    /\ UNCHANGED page
       ELSE /\ pc' = [pc EXCEPT ![c] = "newPage"]
            /\ UNCHANGED <<pagePool, page>>
    /\ UNCHANGED <<browserInstance, browserInitPromise, launch, connected,
                   handler, pageBrowser, pageClosed, kind, waitOn, browser,
                   pending, result, cpc, closing, nClose>>
    /\ UNCHANGED nonEngineVars

\* browser.newPage() settles: a new page of the caller's engine, or a rejection
\* (engine gone), which leaves renderToImage outside its try block.
NewPage(c) ==
    /\ pc[c] = "newPage"
    /\ IF connected[browser[c]]
       THEN /\ pageBrowser' = [pageBrowser EXCEPT ![c] = browser[c]]
            /\ page' = [page EXCEPT ![c] = c]
            /\ pc' = [pc EXCEPT ![c] = "render"]
            /\ UNCHANGED <<result, pending, browser, waitOn>>
       ELSE /\ Finish(c, "NEWPAGE_ERROR")
            /\ UNCHANGED pageBrowser
    /\ UNCHANGED <<browserInstance, browserInitPromise, launch, connected,
                   handler, pagePool, pageClosed, kind, cpc, closing, nClose>>
    /\ UNCHANGED nonEngineVars

\* The catch block of renderToImage: the error kind for what the try body threw.
Thrown == {"none", "ErrorWithTimeoutMessage", "ErrorOtherMessage", "NotAnError"}
Classify(thrown) ==
    CASE thrown = "none" -> "ok"
      [] thrown = "ErrorWithTimeoutMessage" -> "RENDER_TIMEOUT"
      [] thrown = "ErrorOtherMessage" -> "RENDER_FAILED"
      [] OTHER -> "RENDER_FAILED"

\* Mutant of ReleasePage: the page is pushed whatever the pool holds.
ReleasePageNoCapacity(c, res) ==
    IF pageClosed[page[c]]
    THEN /\ Finish(c, res)
         /\ UNCHANGED pagePool
    ELSE /\ pagePool' = Append(pagePool, page[c])
         /\ Finish(c, res)

\* Mutant of ReleasePage: the page is released only when the render succeeded
\* (no finally block).
ReleasePageOnSuccessOnly(c, res) ==
    IF pageClosed[page[c]] \/ res # "ok"
    THEN /\ Finish(c, res)
         /\ UNCHANGED pagePool
    ELSE IF Len(pagePool) < MAX_PAGES
    THEN /\ pagePool' = Append(pagePool, page[c])
         /\ Finish(c, res)
    ELSE /\ pc' = [pc EXCEPT ![c] = "closePage"]
         /\ pending' = [pending EXCEPT ![c] = res]
         /\ UNCHANGED <<pagePool, browser, page, waitOn, result>>

\* releasePage, synchronous part: nothing for a closed page, push under capacity,
\* otherwise page.close() is awaited.
ReleasePage(c, res) ==
    IF pageClosed[page[c]]
    THEN /\ Finish(c, res)
         /\ UNCHANGED pagePool
    ELSE IF Len(pagePool) < MAX_PAGES
    THEN /\ pagePool' = Append(pagePool, page[c])
         /\ Finish(c, res)
    ELSE /\ pc' = [pc EXCEPT ![c] = "closePage"]
         /\ pending' = [pending EXCEPT ![c] = res]
         /\ UNCHANGED <<pagePool, browser, page, waitOn, result>>

\* The try body of renderToImage ends (viewport, setContent, settle, screenshot)
\* and control runs through catch and finally into releasePage.
RenderBody(c, thrown) ==
    /\ pc[c] = "render"
    /\ pageClosed[page[c]] => thrown # "none"
    /\ ReleasePage(c, Classify(thrown))
    /\ UNCHANGED <<browserInstance, browserInitPromise, launch, connected,
                   handler, pageBrowser, pageClosed, kind, cpc, closing, nClose>>
    /\ UNCHANGED nonEngineVars

\* `await page.close()` in releasePage settles.
ClosePage(c) ==
    /\ pc[c] = "closePage"
    /\ pageClosed' = [pageClosed EXCEPT ![page[c]] = TRUE]
    /\ Finish(c, pending[c])
    /\ UNCHANGED <<browserInstance, browserInitPromise, launch, connected,
                   handler, pagePool, pageBrowser, kind, cpc, closing, nClose>>
    /\ UNCHANGED nonEngineVars

\* checkBrowserHealth returns browser.isConnected().
HealthReturn(c) ==
    /\ pc[c] = "gotBrowser"
    /\ kind[c] = "health"
    /\ Finish(c, IF connected[browser[c]] THEN "healthy" ELSE "degraded")
    /\ UNCHANGED <<browserInstance, browserInitPromise, launch, connected,
                   handler, pagePool, pageBrowser, pageClosed, kind, cpc,
                   closing, nClose>>
    /\ UNCHANGED nonEngineVars

\* ------------------------------------------------------------ closeBrowser
\* closeBrowser entry: with an engine, call close() and await it.
CloseBrowser ==
    /\ cpc = "idle"
    /\ nClose < MaxClose
    /\ nClose' = nClose + 1
    /\ IF browserInstance # 0
       THEN /\ closing' = browserInstance
            /\ cpc' = "awaitClose"
       ELSE UNCHANGED <<closing, cpc>>
    /\ UNCHANGED <<browserInstance, browserInitPromise, launch, connected,
                   handler, pagePool, pageBrowser, pageClosed, kind, pc,
                   waitOn, browser, page, pending, result>>
    /\ UNCHANGED nonEngineVars

\* close() has resolved (the engine is disconnected): the three resets.
CloseBrowserResume ==
    /\ cpc = "awaitClose"
    /\ ~connected[closing]
    /\ browserInstance' = 0
    /\ browserInitPromise' = 0
    /\ pagePool' = <<>>
    /\ cpc' = "idle"
    /\ closing' = 0
    /\ UNCHANGED <<launch, connected, handler, pageBrowser, pageClosed, kind,
                   pc, waitOn, browser, page, pending, result, nClose>>
    /\ UNCHANGED nonEngineVars


\* ------------------------------------------------------------------ Cache
\* Keys are the keys generateCacheKey builds: `${url}::${preset}::${version}`,
\* never the empty string (EmptyKey), the one key evictLRU cannot delete.
EmptyKey == <<>>
Keys == {<<k>> : k \in 1..NKeys}
\* The Cache never inspects a value: one opaque value stands for all.
Vals == {"value"}
Undefined == "undefined"

\* createdAt is not a field of the code's CacheEntry: it records Date.now() of
\* the set call that wrote the entry, for the statements about the TTL.
Entry(k, v, t) ==
    [key |-> k, value |-> v, expiresAt |-> t + ttl, lastAccessed |-> t, createdAt |-> t]

StoreKeys(st) == {st[i].key : i \in 1..Len(st)}
Has(st, k) == k \in StoreKeys(st)
IndexOf(st, k) == CHOOSE i \in 1..Len(st) : st[i].key = k
Remove(st, i) == SubSeq(st, 1, i - 1) \o SubSeq(st, i + 1, Len(st))

CacheInit ==
    /\ ttl = DEFAULT_TTL
    /\ maxEntries \in 1..MaxCap
    /\ store = <<>>
    /\ evicted = 0

\* The loop of evictLRU: the index of the first entry with the smallest
\* lastAccessed (0: oldestKey is still null).
RECURSIVE OldestFrom(_, _, _)
OldestFrom(st, i, oldest) ==
    IF i > Len(st) THEN oldest
    ELSE IF oldest = 0 \/ st[i].lastAccessed < st[oldest].lastAccessed
    THEN OldestFrom(st, i + 1, i)
    ELSE OldestFrom(st, i + 1, oldest)

\* Mutant of OldestIndex: the oldest-inserted entry.
OldestInserted(st) == IF st = <<>> THEN 0 ELSE 1

OldestIndex(st) == OldestFrom(st, 1, 0)

\* Mutant of EvictLRU: nothing is evicted.
EvictNothing(st) == st

\* evictLRU: delete the entry the loop found, if `oldestKey` is truthy.
EvictLRU(st) ==
    IF OldestIndex(st) # 0 /\ st[OldestIndex(st)].key # EmptyKey
    THEN Remove(st, OldestIndex(st))
    ELSE st

\* Mutant of Expired: the lifetime counts from the last read.
ExpiredSliding(e, t) == t > e.lastAccessed + ttl

\* The expiry test of get and cleanup.
Expired(e, t) == t > e.expiresAt

\* Mutant of DeleteExpired: the loop stops at the first entry it deletes.
DeleteFirstExpired(st, t) ==
    IF \E i \in 1..Len(st) : t > st[i].expiresAt
    THEN Remove(st, CHOOSE i \in 1..Len(st) :
                       /\ t > st[i].expiresAt
                       /\ \A j \in 1..(i - 1) : t <= st[j].expiresAt)
    ELSE st

\* The loop of cleanup: every expired entry is deleted.
RECURSIVE DeleteExpired(_, _)
DeleteExpired(st, t) ==
    IF st = <<>> THEN <<>>
    ELSE IF Expired(Head(st), t) THEN DeleteExpired(Tail(st), t)
    ELSE <<Head(st)>> \o DeleteExpired(Tail(st), t)

\* Cache.get: what get(k) returns at time t ...
GetReturn(st, k, t) ==
    IF ~Has(st, k) THEN Undefined
    ELSE IF Expired(st[IndexOf(st, k)], t) THEN Undefined
    ELSE st[IndexOf(st, k)].value

\* Mutant of GetStore: a read also renews the entry's lifetime.
GetStoreRenewing(st, k, t) ==
    IF ~Has(st, k) THEN st
    ELSE IF Expired(st[IndexOf(st, k)], t) THEN Remove(st, IndexOf(st, k))
    ELSE [st EXCEPT ![IndexOf(st, k)].lastAccessed = t,
                    ![IndexOf(st, k)].expiresAt = t + ttl]

\* ... and the Map it leaves: an expired entry is deleted, a live one touched.
GetStore(st, k, t) ==
    IF ~Has(st, k) THEN st
    ELSE IF Expired(st[IndexOf(st, k)], t) THEN Remove(st, IndexOf(st, k))
    ELSE [st EXCEPT ![IndexOf(st, k)].lastAccessed = t]

CacheGet(k) ==
    /\ store' = GetStore(store, k, now)
    /\ evicted' = 0
    /\ UNCHANGED <<now, ttl, maxEntries>>
    /\ UNCHANGED nonCacheVars

\* Map.set: an existing key keeps its place, a new key goes last.
MapSet(st, e) ==
    IF Has(st, e.key) THEN [st EXCEPT ![IndexOf(st, e.key)] = e] ELSE Append(st, e)

\* Cache.set: the Map after set(k, v) at time t.
SetStore(st, k, v, t) ==
    IF Len(st) >= maxEntries /\ ~Has(st, k)
    THEN MapSet(EvictLRU(st), Entry(k, v, t))
    ELSE MapSet(st, Entry(k, v, t))

CacheSet(k, v) ==
    /\ store' = SetStore(store, k, v, now)
    /\ evicted' = IF Len(store) >= maxEntries /\ ~Has(store, k)
                  THEN OldestIndex(store) ELSE 0
    /\ UNCHANGED <<now, ttl, maxEntries>>
    /\ UNCHANGED nonCacheVars

\* Cache.cleanup (also the body of the 5-minute interval)
CacheCleanup ==
    /\ store' = DeleteExpired(store, now)
    /\ evicted' = 0
    /\ UNCHANGED <<now, ttl, maxEntries>>
    /\ UNCHANGED nonCacheVars

\* Cache.clear
CacheClear ==
    /\ store' = <<>>
    /\ evicted' = 0
    /\ UNCHANGED <<now, ttl, maxEntries>>
    /\ UNCHANGED nonCacheVars

\* Time passes: one millisecond, or one TTL less a millisecond. The clock runs
\* through 0..MaxMs, jumps once, and runs on to one TTL and MaxMs.
CacheTick(d) ==
    /\ now + d <= DEFAULT_TTL + MaxMs
    /\ d = 1 => (now < MaxMs \/ now >= DEFAULT_TTL - 1)
    /\ now' = now + d
    /\ UNCHANGED <<ttl, maxEntries, store, evicted>>
    /\ UNCHANGED nonCacheVars

\* ------------------------------------------------- metadata session cache
Meta == 1..NMeta
Null == 0
\* A session id that was never issued, and the falsy sessionId of a request
\* that carries none.
NoSession == <<0, 0>>
MissingSession == <<>>

SessionInit ==
    /\ metadataCache = <<>>
    /\ issued = {}
    /\ nIssued = 0
    /\ answer = "none"

\* generateSessionId: `sess_${Date.now()}_${random}`; r is what Math.random() gave.
GenerateSessionId(t, r) == <<t, r>>

\* Mutant of SessionExpired: expired as soon as the TTL has elapsed.
SessionExpiredAtTTL(e, t) == t - e.timestamp >= CACHE_TTL

\* The expiry test of getCachedMetadata and cleanOldEntries.
SessionExpired(e, t) == t - e.timestamp > CACHE_TTL

\* cleanOldEntries: every expired entry is deleted.
CleanOldEntries(mc, t) ==
    [id \in {i \in DOMAIN mc : ~SessionExpired(mc[i], t)} |-> mc[id]]

\* Map.set on the session Map.
SessionPut(mc, id, e) ==
    [i \in DOMAIN mc \cup {id} |-> IF i = id THEN e ELSE mc[i]]

\* cacheMetadata
CacheMetadata(m, r) ==
    /\ nIssued < MaxIssued
    /\ metadataCache' = SessionPut(CleanOldEntries(metadataCache, now),
                                   GenerateSessionId(now, r),
                                   [metadata |-> m, timestamp |-> now])
    /\ issued' = issued \cup {GenerateSessionId(now, r)}
    /\ nIssued' = nIssued + 1
    /\ UNCHANGED <<now, answer>>
    /\ UNCHANGED nonSessionVars

\* getCachedMetadata: what it returns at time t ...
GetCachedReturn(mc, id, t) ==
    IF id \notin DOMAIN mc THEN Null
    ELSE IF SessionExpired(mc[id], t) THEN Null
    ELSE mc[id].metadata

\* ... and the Map it leaves: an expired entry is deleted.
GetCachedStore(mc, id, t) ==
    IF id \in DOMAIN mc /\ SessionExpired(mc[id], t)
    THEN [i \in DOMAIN mc \ {id} |-> mc[i]]
    ELSE mc

GetCachedMetadata(id) ==
    /\ metadataCache' = GetCachedStore(metadataCache, id, now)
    /\ UNCHANGED <<now, issued, nIssued, answer>>
    /\ UNCHANGED nonSessionVars

\* POST /api/render-from-metadata up to its render: the error code it answers,
\* or "rendering" when it goes on to generateCardHtml and renderToImage.
FromMetadataAnswer(bodyOk, id, metadata) ==
    IF ~bodyOk THEN "RENDER_ERROR"
    ELSE IF id = MissingSession THEN "MISSING_SESSION"
    ELSE IF metadata = Null THEN "SESSION_EXPIRED"
    ELSE "rendering"

RenderFromMetadata(bodyOk, id) ==
    /\ answer' = FromMetadataAnswer(bodyOk, id,
                                    GetCachedReturn(metadataCache, id, now))
    /\ metadataCache' = IF bodyOk /\ id # MissingSession
                        THEN GetCachedStore(metadataCache, id, now)
                        ELSE metadataCache
    /\ UNCHANGED <<now, issued, nIssued>>
    /\ UNCHANGED nonSessionVars

\* A request with a well-formed body arrives while no other is rendering.
SessionRequest(id) ==
    /\ answer # "rendering"
    /\ RenderFromMetadata(TRUE, id)

\* renderToImage settles (RenderOutcomes) for the request that is rendering:
\* the image is returned, or the catch block answers.
RenderFromMetadataSettle(outcome) ==
    /\ answer = "rendering"
    /\ answer' = IF outcome = "ok" THEN "image" ELSE "RENDER_ERROR"
    /\ UNCHANGED <<now, metadataCache, issued, nIssued>>
    /\ UNCHANGED nonSessionVars

\* Time passes, as in CacheTick, around one session TTL.
SessionTick(d) ==
    /\ now + d <= CACHE_TTL + MaxMs
    /\ d = 1 => (now < MaxMs \/ now >= CACHE_TTL - 1)
    /\ now' = now + d
    /\ UNCHANGED <<metadataCache, issued, nIssued, answer>>
    /\ UNCHANGED nonSessionVars

\* ------------------------------------------------------------ URL normalizer
\* A string is the sequence of its tokens. A URL string is made of optional
\* surrounding blanks, a scheme, a host and the tokens of its path: "/" and
\* the segments between the slashes.
Blank == " "
Schemes == {"https://", "http://", "ftp://"}
Hosts == {"letterboxd.com", "www.letterboxd.com", "boxd.it", "example.com",
          "letterboxd.com.evil.io"}
Paths == {<<>>,
          <<"/">>,
          <<"/", "user", "/", "film", "/", "slug", "/">>,
          <<"/", "user", "/", "film", "/", "slug", "/", "1", "/">>,
          <<"/", "user", "/", "/", "film", "/", "slug">>,
          <<"/", "film", "/", "slug", "/">>,
          <<"/", "user", "/", "list", "/", "slug", "/">>}
Pads == {<<>>, <<Blank>>}

\* The strings normalizeUrl is called with.
UrlInputs ==
    {<<>>, <<Blank>>, <<"garbage">>, <<Blank, "garbage">>}
    \cup {pre \o <<s, h>> \o p \o post :
            pre \in Pads, s \in Schemes, h \in Hosts, p \in Paths, post \in Pads}

\* What fetch answers: it throws, or it returns a response whose url is the
\* address the redirects ended at (the empty string when there is none).
FinalUrls ==
    {<<>>} \cup {<<s, h>> \o p : s \in {"https://", "http://"}, h \in Hosts,
                                  p \in Paths}
NoResponse == [status |-> "none", url |-> <<>>]
Responses ==
    {[status |-> "failed", url |-> <<>>]}
    \cup {[status |-> "ok", url |-> u] : u \in FinalUrls}

RECURSIVE TrimStart(_)
TrimStart(str) ==
    IF str # <<>> /\ Head(str) = Blank THEN TrimStart(Tail(str)) ELSE str

RECURSIVE TrimEnd(_)
TrimEnd(str) ==
    IF str # <<>> /\ str[Len(str)] = Blank
    THEN TrimEnd(SubSeq(str, 1, Len(str) - 1))
    ELSE str

\* String.prototype.trim
Trim(str) == TrimEnd(TrimStart(str))

\* new URL(str): ok is FALSE when the constructor throws. (The parser gives
\* the host of an http(s) URL in lower case, so hostname.toLowerCase() changes
\* nothing.)
ParseURL(str) ==
    IF /\ Len(str) >= 2
       /\ str[1] \in Schemes
       /\ str[2] \in Hosts
       /\ \A i \in 3..Len(str) : str[i] # Blank
    THEN [ok |-> TRUE, protocol |-> str[1], hostname |-> str[2],
          pathname |-> SubSeq(str, 3, Len(str))]
    ELSE [ok |-> FALSE, protocol |-> "", hostname |-> "", pathname |-> <<>>]

\* pathname.split('/').filter(Boolean): the non-empty segments
PathParts(pathname) == SelectSeq(pathname, LAMBDA t : t # "/")

\* ... each segment as the text between two slashes (PathParts when every
\* segment is one word).
RECURSIVE SegmentsFrom(_, _, _)
SegmentsFrom(pathname, i, segment) ==
    LET ended == IF segment = <<>> THEN <<>> ELSE <<segment>>
    IN  IF i > Len(pathname) THEN ended
        ELSE IF pathname[i] = "/"
        THEN ended \o SegmentsFrom(pathname, i + 1, <<>>)
        ELSE SegmentsFrom(pathname, i + 1, Append(segment, pathname[i]))
PathSegments(pathname) == SegmentsFrom(pathname, 1, <<>>)

\* hostname.includes('letterboxd.com'), over Hosts
IncludesLetterboxd(hostname) ==
    hostname \in {"letterboxd.com", "www.letterboxd.com",
                  "letterboxd.com.evil.io"}

AllowedDomainIncludes(hostname) ==
    IncludesLetterboxd(hostname) \/ hostname = "boxd.it"

\* allowedDomains.includes(hostname)
AllowedDomain(hostname) ==
    hostname \in {"letterboxd.com", "www.letterboxd.com", "boxd.it"}

Returned(u) == [ok |-> TRUE, url |-> u, code |-> "none"]
Threw(c) == [ok |-> FALSE, url |-> <<>>, code |-> c]
NoResult == Threw("none")

\* The code normalizeUrl throws before it reaches followRedirect or the path
\* check ("none": it throws nothing there).
InputCode(inputUrl) ==
    LET trimmedUrl == Trim(inputUrl)
        parsedUrl == ParseURL(trimmedUrl)
    IN  IF trimmedUrl = <<>> THEN "EMPTY_URL"
        ELSE IF ~parsedUrl.ok THEN "INVALID_URL_FORMAT"
        ELSE IF parsedUrl.protocol \notin {"http://", "https://"}
             THEN "INVALID_PROTOCOL"
        ELSE IF ~AllowedDomain(parsedUrl.hostname) THEN "INVALID_DOMAIN"
        ELSE "none"

\* normalizeUrl calls followRedirect, and followRedirect calls fetch.
IsShortLink(inputUrl) ==
    /\ InputCode(inputUrl) = "none"
    /\ ParseURL(Trim(inputUrl)).hostname = "boxd.it"

\* followRedirect, given what fetch answered
FollowRedirect(resp) ==
    IF resp.status # "ok" THEN Threw("REDIRECT_FAILED")
    ELSE IF ~ParseURL(resp.url).ok THEN Threw("REDIRECT_FAILED")
    ELSE IF ~IncludesLetterboxd(ParseURL(resp.url).hostname)
         THEN Threw("INVALID_REDIRECT")
    ELSE Returned(resp.url)

\* The result of normalizeUrl(inputUrl); resp is what fetch answers if it is
\* called.
NormalizeUrlResult(inputUrl, resp) ==
    LET trimmedUrl == Trim(inputUrl)
        parsedUrl == ParseURL(trimmedUrl)
        pathParts == PathSegments(parsedUrl.pathname)
    IN  IF InputCode(inputUrl) # "none" THEN Threw(InputCode(inputUrl))
        ELSE IF parsedUrl.hostname = "boxd.it" THEN FollowRedirect(resp)
        ELSE IF Len(pathParts) < 3 \/ pathParts[2] # <<"film">>
             THEN Threw("NOT_REVIEW_URL")
        ELSE Returned(trimmedUrl)

UrlInit ==
    /\ uInput = <<>>
    /\ uPc = "done"
    /\ uResult = NoResult
    /\ uFetches = 0
    /\ uResp = NoResponse
    /\ uFirst = NoResult

\* normalizeUrl up to its first await: it settles, or it waits for fetch.
NormalizeUrl ==
    /\ uPc = "start"
    /\ IF IsShortLink(uInput)
       THEN /\ uPc' = "fetch"
            /\ uFetches' = uFetches + 1
            /\ UNCHANGED uResult
       ELSE /\ uPc' = "done"
            /\ uResult' = NormalizeUrlResult(uInput, NoResponse)
            /\ UNCHANGED uFetches
    /\ UNCHANGED <<uInput, uResp, uFirst>>
    /\ UNCHANGED nonUrlVars

\* fetch settles and followRedirect runs to its end.
FetchSettle(resp) ==
    /\ uPc = "fetch"
    /\ uPc' = "done"
    /\ uResp' = resp
    /\ uResult' = NormalizeUrlResult(uInput, resp)
    /\ UNCHANGED <<uInput, uFetches, uFirst>>
    /\ UNCHANGED nonUrlVars

\* The caller passes the URL it was given back to normalizeUrl.
NormalizeAgain ==
    /\ uPc = "done"
    /\ uResult.ok
    /\ uFirst = NoResult
    /\ uFirst' = uResult
    /\ uInput' = uResult.url
    /\ uPc' = "start"
    /\ uResult' = NoResult
    /\ uFetches' = 0
    /\ uResp' = NoResponse
    /\ UNCHANGED nonUrlVars

\* ------------------------------------------------------------ rate limiter
RATE_LIMIT == 10
RATE_WINDOW == 60 * 1000
\* Admissions recorded in all: a full window and the start of the next.
MaxAdmit == RATE_LIMIT + MaxOver

\* Client identities, as getClientIp returns them.
Ips == {"203.0.113.7", "unknown"}

RateInit ==
    /\ requestCounts = <<>>
    /\ admitted = [ip \in Ips |-> <<>>]

\* checkRateLimit opens a new window for the client.
NewWindow(rc, ip, t) == ip \notin DOMAIN rc \/ t > rc[ip].resetAt

\* The value checkRateLimit(ip) returns at time t.
CheckRateLimitReturn(rc, ip, t) ==
    NewWindow(rc, ip, t) \/ rc[ip].count < RATE_LIMIT

\* The Map checkRateLimit(ip) leaves at time t.
CheckRateLimitStoreCountingRejected(rc, ip, t) ==
    IF NewWindow(rc, ip, t)
    THEN [i \in DOMAIN rc \cup {ip} |->
            IF i = ip THEN [count |-> 1, resetAt |-> t + RATE_WINDOW]
            ELSE rc[i]]
    ELSE [rc EXCEPT ![ip].count = rc[ip].count + 1]

CheckRateLimitStore(rc, ip, t) ==
    IF NewWindow(rc, ip, t)
    THEN [i \in DOMAIN rc \cup {ip} |->
            IF i = ip THEN [count |-> 1, resetAt |-> t + RATE_WINDOW]
            ELSE rc[i]]
    ELSE IF rc[ip].count >= RATE_LIMIT THEN rc
    ELSE [rc EXCEPT ![ip].count = rc[ip].count + 1]

RECURSIVE SumLen(_, _)
SumLen(adm, ips) ==
    IF ips = {} THEN 0
    ELSE LET ip == CHOOSE i \in ips : TRUE
         IN  Len(adm[ip]) + SumLen(adm, ips \ {ip})

\* The admissions recorded after checkRateLimit(ip) at time t.
Admitted(adm, rc, ip, t) ==
    IF CheckRateLimitReturn(rc, ip, t)
    THEN [adm EXCEPT ![ip] = Append(adm[ip], t)]
    ELSE adm

CheckRateLimit(ip) ==
    /\ SumLen(admitted, Ips) < MaxAdmit
    /\ requestCounts' = CheckRateLimitStore(requestCounts, ip, now)
    /\ admitted' = Admitted(admitted, requestCounts, ip, now)
    /\ UNCHANGED now
    /\ UNCHANGED nonRateVars

\* Time passes by one millisecond, twice at the start of a window and twice
\* around its end, or by just under one window: the clock shows 0, 1, 2 and
\* RATE_WINDOW - 1, RATE_WINDOW, RATE_WINDOW + 1.
RateTick(d) ==
    /\ now + d <= RATE_WINDOW + 1
    /\ d = 1 => now % (RATE_WINDOW - 1) <= 1
    /\ now' = now + d
    /\ UNCHANGED rateVars
    /\ UNCHANGED nonRateVars

\* ------------------------------------------------------------ render route
\* Render requests in flight at once.
Slots == 1..MaxInFlight

\* A body field that is not given.
Absent == <<"(absent)">>
OrDefault(field, default) == IF field = Absent THEN default ELSE field

ReviewUrl == <<"https://", "letterboxd.com", "/", "user", "/", "film", "/",
               "slug", "/">>
PaddedUrl == <<Blank>> \o ReviewUrl
ShortUrl == <<"https://", "boxd.it", "/", "slug">>
ListUrl == <<"https://", "letterboxd.com", "/", "user", "/", "list", "/",
             "slug", "/">>

\* Request headers: x-forwarded-for as its comma-separated parts, x-real-ip.
Headers == {[xff |-> <<"203.0.113.7", "10.0.0.1">>, xreal |-> "198.51.100.1"]}

GetClientIp(headers) ==
    IF headers.xff # <<>> /\ headers.xff[1] # "" THEN headers.xff[1]
    ELSE IF headers.xreal # "" THEN headers.xreal
    ELSE "unknown"

RequestOf(h, ok, u, p) ==
    [headers |-> h, bodyOk |-> ok, url |-> u, preset |-> p,
     fontSize |-> Absent, cardStyle |-> Absent, templateVersion |-> Absent]

\* The requests POST is called with: well-formed ones for three URLs, one
\* without url, one with an unknown preset, one whose body is not JSON.
Requests ==
    {RequestOf(h, TRUE, u, Absent) :
        h \in Headers, u \in {ReviewUrl, PaddedUrl, ShortUrl, <<>>}}
    \cup {RequestOf(h, TRUE, ReviewUrl, <<"poster">>) : h \in Headers}
    \cup {RequestOf(h, FALSE, <<>>, Absent) : h \in Headers}
NoRequest == RequestOf([xff |-> <<>>, xreal |-> ""], FALSE, <<>>, Absent)

\* What fetch answers to the normalizer within a render request.
RouteResponses ==
    {[status |-> "failed", url |-> <<>>],
     [status |-> "ok", url |-> ReviewUrl],
     [status |-> "ok", url |-> ListUrl]}
\* How parseReview settles: its result, a ReviewParseError, another error.
ParseOutcomes == {"ok", "NOT_FOUND", "FETCH_FAILED", "Error"}
\* How renderToImage settles: its result, a RenderError, another error.
RenderOutcomes == {"ok", "RENDER_TIMEOUT", "RENDER_FAILED", "Error"}

ValidPresets == {<<"square">>, <<"portrait">>, <<"story">>}

\* generateCacheKey
GenerateCacheKey(url, preset, templateVersion) ==
    url \o <<"::">> \o preset \o <<"::">> \o templateVersion

\* `${preset}-${fontSize}-${cardStyle}`
StyleOptions(q) ==
    OrDefault(q.preset, <<"square">>) \o <<"-">>
        \o OrDefault(q.fontSize, <<"medium">>) \o <<"-">>
        \o OrDefault(q.cardStyle, <<"classic">>)

\* The cacheKey POST computes for request q.
CacheKeyOf(q) ==
    GenerateCacheKey(q.url, StyleOptions(q),
                     OrDefault(q.templateVersion, <<"v1">>))

\* The request tuple the key is computed from.
OptionsOf(q) ==
    <<q.url, OrDefault(q.preset, <<"square">>),
      OrDefault(q.fontSize, <<"medium">>),
      OrDefault(q.cardStyle, <<"classic">>),
      OrDefault(q.templateVersion, <<"v1">>)>>

\* Requests for a review URL, and for the review URL followed by text that
\* reads like the rest of a key (it is part of the last path segment), with
\* and without a preset and a template version.
SuffixedUrl == ReviewUrl \o <<"::", "square", "-", "medium", "-", "classic">>
\* A profile URL, and a review URL whose first path segment goes on, after
\* the profile's name, with text that reads like the rest of a key; a card
\* style that goes on with the rest of that URL's path.
ProfileUrl == <<"https://", "letterboxd.com", "/", "user">>
SuffixedUserUrl ==
    ProfileUrl \o <<"::", "square", "-", "medium", "-", "classic",
                    "/", "film", "/", "slug", "/">>
PathStyle == <<"classic", "/", "film", "/", "slug", "/">>
KeyRequests ==
    {[RequestOf(h, TRUE, u, p) EXCEPT !.templateVersion = tv] :
        h \in Headers, u \in {ReviewUrl, SuffixedUrl, SuffixedUserUrl},
        p \in {Absent, <<"portrait">>},
        tv \in {Absent, <<"v2">>,
                <<"portrait", "-", "medium", "-", "classic", "::", "v1">>}}
    \cup {[RequestOf(h, TRUE, ProfileUrl, Absent)
              EXCEPT !.cardStyle = cs, !.templateVersion = tv] :
            h \in Headers, cs \in {Absent, PathStyle},
            tv \in {Absent,
                    <<"portrait", "-", "medium", "-", "classic", "::", "v1">>}}
    \cup {RequestOf(h, TRUE, u, p) :
            h \in Headers, u \in {ReviewUrl, <<>>},
            p \in {Absent, <<"poster">>}}

NoAnswer == [status |-> 0, code |-> "none", xCache |-> "none"]
ErrorAnswer(status, code) == [status |-> status, code |-> code, xCache |-> "none"]
ImageAnswer(xCache) == [status |-> 200, code |-> "none", xCache |-> xCache]

RouteInit ==
    /\ rpc = [r \in Slots |-> "idle"]
    /\ req = [r \in Slots |-> NoRequest]
    /\ normalizedUrl = [r \in Slots |-> <<>>]
    /\ called = [r \in Slots |-> {}]
    /\ rans = [r \in Slots |-> NoAnswer]
    /\ nArrived = 0

\* POST returns a response.
Respond(r, a) ==
    /\ rpc' = [rpc EXCEPT ![r] = "done"]
    /\ rans' = [rans EXCEPT ![r] = a]

\* POST goes on to its next await.
Proceed(r, to, calls) ==
    /\ rpc' = [rpc EXCEPT ![r] = to]
    /\ called' = [called EXCEPT ![r] = called[r] \cup calls]
    /\ UNCHANGED rans

ArriveLookupFirst(r, q) ==
    /\ rpc[r] = "idle"
    /\ \A o \in Slots : rpc[o] = "idle" => r <= o
    /\ nArrived < MaxArrive
    /\ nArrived' = nArrived + 1
    /\ req' = [req EXCEPT ![r] = q]
    /\ store' = GetStore(store, CacheKeyOf(q), now)
    /\ requestCounts' =
          CheckRateLimitStore(requestCounts, GetClientIp(q.headers), now)
    /\ IF ~CheckRateLimitReturn(requestCounts, GetClientIp(q.headers), now)
       THEN /\ Respond(r, ErrorAnswer(429, "RATE_LIMITED"))
            /\ UNCHANGED called
       ELSE Proceed(r, "body", {})
    /\ UNCHANGED <<now, evicted, normalizedUrl>>
    /\ UNCHANGED nonRouteVars

\* POST is called with request q and runs up to `await request.json()`.
Arrive(r, q) ==
    /\ rpc[r] = "idle"
    /\ \A o \in Slots : rpc[o] = "idle" => r <= o
    /\ nArrived < MaxArrive
    /\ nArrived' = nArrived + 1
    /\ req' = [req EXCEPT ![r] = q]
    /\ requestCounts' =
          CheckRateLimitStore(requestCounts, GetClientIp(q.headers), now)
    /\ IF ~CheckRateLimitReturn(requestCounts, GetClientIp(q.headers), now)
       THEN /\ Respond(r, ErrorAnswer(429, "RATE_LIMITED"))
            /\ UNCHANGED called
       ELSE Proceed(r, "body", {})
    /\ UNCHANGED <<now, store, evicted, normalizedUrl>>
    /\ UNCHANGED nonRouteVars

BodyNoLookup(r) ==
    /\ rpc[r] = "body"
    /\ LET q == req[r]
       IN  IF ~q.bodyOk
           THEN Respond(r, ErrorAnswer(500, "INTERNAL_ERROR")) /\ UNCHANGED called
           ELSE IF q.url = <<>>
           THEN Respond(r, ErrorAnswer(400, "MISSING_URL")) /\ UNCHANGED called
           ELSE IF OrDefault(q.preset, <<"square">>) \notin ValidPresets
           THEN Respond(r, ErrorAnswer(400, "INVALID_PRESET")) /\ UNCHANGED called
           ELSE Proceed(r, "normalize", {"normalizeUrl"})
    /\ UNCHANGED <<now, store, evicted, requestCounts, nArrived, req, normalizedUrl>>
    /\ UNCHANGED nonRouteVars

\* request.json() settles: the body is validated and the cache is looked up.
Body(r) ==
    /\ rpc[r] = "body"
    /\ LET q == req[r]
       IN  IF ~q.bodyOk
           THEN /\ Respond(r, ErrorAnswer(500, "INTERNAL_ERROR"))
                /\ UNCHANGED <<called, store>>
           ELSE IF q.url = <<>>
           THEN /\ Respond(r, ErrorAnswer(400, "MISSING_URL"))
                /\ UNCHANGED <<called, store>>
           ELSE IF OrDefault(q.preset, <<"square">>) \notin ValidPresets
           THEN /\ Respond(r, ErrorAnswer(400, "INVALID_PRESET"))
                /\ UNCHANGED <<called, store>>
           ELSE /\ store' = GetStore(store, CacheKeyOf(q), now)
                /\ IF GetReturn(store, CacheKeyOf(q), now) # Undefined
                   THEN /\ Respond(r, ImageAnswer("HIT"))
                        /\ called' = [called EXCEPT ![r] = {"imageCache.get"}]
                   ELSE Proceed(r, "normalize",
                                {"imageCache.get", "normalizeUrl"})
    /\ evicted' = 0
    /\ UNCHANGED <<now, requestCounts, nArrived, req, normalizedUrl>>
    /\ UNCHANGED nonRouteVars

\* normalizeUrl settles; resp is what fetch answered if it was called (when
\* it was not, resp is not looked at and stands for nothing).
Normalize(r, resp) ==
    /\ rpc[r] = "normalize"
    /\ IsShortLink(req[r].url) \/ resp.status = "failed"
    /\ LET res == NormalizeUrlResult(req[r].url, resp)
       IN  IF res.ok
           THEN /\ Proceed(r, "parse", {"parseReview"})
                /\ normalizedUrl' = [normalizedUrl EXCEPT ![r] = res.url]
           ELSE /\ Respond(r, ErrorAnswer(400, res.code))
                /\ UNCHANGED <<called, normalizedUrl>>
    /\ UNCHANGED <<now, store, evicted, requestCounts, nArrived, req>>
    /\ UNCHANGED nonRouteVars

\* parseReview settles; on its result the card is generated and renderToImage
\* is called.
Parse(r, outcome) ==
    /\ rpc[r] = "parse"
    /\ IF outcome = "ok"
       THEN Proceed(r, "render", {"generateCardHtml", "renderToImage"})
       ELSE /\ Respond(r, CASE outcome = "NOT_FOUND" -> ErrorAnswer(404, outcome)
                            [] outcome = "Error" ->
                                   ErrorAnswer(500, "INTERNAL_ERROR")
                            [] OTHER -> ErrorAnswer(500, outcome))
            /\ UNCHANGED called
    /\ UNCHANGED <<now, store, evicted, requestCounts, nArrived, req,
                   normalizedUrl>>
    /\ UNCHANGED nonRouteVars

RenderCachesAnyOutcome(r, outcome) ==
    /\ rpc[r] = "render"
    /\ store' = SetStore(store, CacheKeyOf(req[r]), "value", now)
    /\ evicted' = IF Len(store) >= maxEntries
                     /\ ~Has(store, CacheKeyOf(req[r]))
                  THEN OldestIndex(store) ELSE 0
    /\ called' = [called EXCEPT ![r] = called[r] \cup {"imageCache.set"}]
    /\ Respond(r, IF outcome = "ok" THEN ImageAnswer("MISS")
                  ELSE IF outcome = "Error"
                  THEN ErrorAnswer(500, "INTERNAL_ERROR")
                  ELSE ErrorAnswer(500, outcome))
    /\ UNCHANGED <<now, requestCounts, nArrived, req, normalizedUrl>>
    /\ UNCHANGED nonRouteVars

\* renderToImage settles; its image is cached and returned.
Render(r, outcome) ==
    /\ rpc[r] = "render"
    /\ IF outcome = "ok"
       THEN /\ store' = SetStore(store, CacheKeyOf(req[r]), "value", now)
            /\ evicted' = IF Len(store) >= maxEntries
                             /\ ~Has(store, CacheKeyOf(req[r]))
                          THEN OldestIndex(store) ELSE 0
            /\ called' = [called EXCEPT ![r] = called[r] \cup {"imageCache.set"}]
            /\ Respond(r, ImageAnswer("MISS"))
       ELSE /\ Respond(r, IF outcome = "Error"
                          THEN ErrorAnswer(500, "INTERNAL_ERROR")
                          ELSE ErrorAnswer(500, outcome))
            /\ UNCHANGED <<called, store, evicted>>
    /\ UNCHANGED <<now, requestCounts, nArrived, req, normalizedUrl>>
    /\ UNCHANGED nonRouteVars

\* Time passes by a millisecond, at the start and after one TTL of the image
\* cache, or by one TTL: the clock shows 0, 1, DEFAULT_TTL, DEFAULT_TTL + 1.
RouteTick(d) ==
    /\ now + d <= DEFAULT_TTL + 1
    /\ d = 1 => now % DEFAULT_TTL = 0
    /\ now' = now + d
    /\ UNCHANGED <<store, evicted, requestCounts>>
    /\ UNCHANGED routeVars
    /\ UNCHANGED nonRouteVars

\* The response has been sent.
Forget(r) ==
    /\ rpc[r] = "done"
    /\ rpc' = [rpc EXCEPT ![r] = "idle"]
    /\ rans' = [rans EXCEPT ![r] = NoAnswer]
    /\ called' = [called EXCEPT ![r] = {}]
    /\ req' = [req EXCEPT ![r] = NoRequest]
    /\ normalizedUrl' = [normalizedUrl EXCEPT ![r] = <<>>]
    /\ UNCHANGED <<now, store, evicted, requestCounts, nArrived>>
    /\ UNCHANGED nonRouteVars

\* ------------------------------------------------------------ review extractor
\* Text found in the page is, like a URL, the sequence of its tokens; <<>> is
\* the empty string, which is also what stands for a missing attribute or
\* element (both are falsy).
Quotes == {"'", "\""}
Years == {"(1995)"}
ReviewOfWords == {"Review of ", "review of "}
ByWord == " by "

\* .film-poster[data-film-name], h1.headline-1 a, meta og:title, title
PosterTitles == {<<>>, <<"Heat">>}
HeadingTitles == {<<>>, <<"Ronin">>}
OgTitles ==
    {<<>>,
     <<"'", "Thief", "'", " review by bob">>,
     <<"Review of ", "Collateral", Blank, "(1995)", " by ", "bob">>,
     <<"review of ", "(1995)", " by ", "bob">>,
     <<"A film diary entry">>,
     <<"bob", "'", "s diary">>}
PageTitles ==
    {<<>>,
     <<"\"", "Manhunter", "\"", " review">>,
     <<"Letterboxd">>}

\* The class attribute of a span.rating element: its class names, each a
\* text followed by the digits that come right after it (<<>>: none).
ClassName(text, digits) == [text |-> text, digits |-> digits]
RatingSuffixes == {0, 1, 7, 10, 12}
RatingClasses ==
    {<<ClassName("rating", <<>>)>>,
     <<ClassName("rating", <<>>), ClassName("rated-", <<>>)>>}
    \cup {<<ClassName("rating", <<>>), ClassName("rated-", <<n>>)>> :
            n \in RatingSuffixes}
\* The span.rating elements of the page, in document order.
RatingSpans ==
    {<<>>}
    \cup {<<c>> : c \in RatingClasses}
    \cup {<<<<ClassName("rating", <<>>)>>,
            <<ClassName("rating", <<>>), ClassName("rated-", <<7>>)>>>>,
          <<<<ClassName("rating", <<>>), ClassName("rated-", <<0>>)>>,
            <<ClassName("rating", <<>>), ClassName("rated-", <<10>>)>>>>}

\* .film-poster img[src] and a.avatar img[src]
\* (addresses of images are token sequences too; <<>> also stands for null
\* and undefined)
PosterSrc == <<"https://", "a.ltrbxd.com", "/", "poster.jpg">>
AvatarSrc == <<"https://", "a.ltrbxd.com", "/", "avatar.jpg">>
NoUrl == <<>>

MarkupOf(p, h, og, t, rs, ps, av) ==
    [filmPosterTitle |-> p, filmDetailLink |-> h, ogTitle |-> og,
     pageTitle |-> t, ratingSpans |-> rs, posterFromData |-> ps,
     avatarSrc |-> av]
NoMarkup == MarkupOf(<<>>, <<>>, <<>>, <<>>, <<>>, NoUrl, NoUrl)

\* The pages the title and rating strategies are examined on.
ExtractMarkups ==
    {MarkupOf(p, h, og, t, rs, NoUrl, NoUrl) :
        p \in PosterTitles, h \in HeadingTitles, og \in OgTitles,
        t \in PageTitles, rs \in RatingSpans}

\* The URLs normalizeUrl returns.
ReturnedUrls ==
    {NormalizeUrlResult(i, r).url :
        <<i, r>> \in {<<j, s>> \in UrlInputs \X (Responses \cup {NoResponse}) :
                        /\ IsShortLink(j) <=> s # NoResponse
                        /\ NormalizeUrlResult(j, s).ok}}

NoMatch == [found |-> FALSE, group |-> <<>>]
Match(g) == [found |-> TRUE, group |-> g]

Least(S) == CHOOSE i \in S : \A j \in S : i <= j

\* str.match(/['"](.+?)['"]/): the leftmost quote that has another quote at
\* least one character further on, and the text up to the nearest such quote.
QuotedMatch(str) ==
    LET closes(i) == {j \in (i + 2)..Len(str) : str[j] \in Quotes}
        opens == {i \in 1..Len(str) : str[i] \in Quotes /\ closes(i) # {}}
    IN  IF opens = {} THEN NoMatch
        ELSE Match(SubSeq(str, Least(opens) + 1,
                          Least(closes(Least(opens))) - 1))

\* str.match(/Review of (.+?) by /i)
ReviewOfMatch(str) ==
    LET closes(i) == {j \in (i + 2)..Len(str) : str[j] = ByWord}
        opens == {i \in 1..Len(str) :
                    str[i] \in ReviewOfWords /\ closes(i) # {}}
    IN  IF opens = {} THEN NoMatch
        ELSE Match(SubSeq(str, Least(opens) + 1,
                          Least(closes(Least(opens))) - 1))

\* group.replace(/\s*\(\d{4}\)\s*$/, '')
StripYear(group) ==
    LET g == TrimEnd(group)
    IN  IF g # <<>> /\ g[Len(g)] \in Years
        THEN TrimEnd(SubSeq(g, 1, Len(g) - 1))
        ELSE group

\* word.charAt(0).toUpperCase() + word.slice(1).toLowerCase(), over the
\* segments of Paths
Capitalize(word) ==
    CASE word = "slug" -> "Slug"
      [] word = "film" -> "Film"
      [] word = "user" -> "User"
      [] word = "list" -> "List"
      [] OTHER -> word

\* slugToTitle (a slug of Paths is a single word)
SlugToTitle(slug) ==
    IF slug = "" THEN <<"Unknown Film">> ELSE <<Capitalize(slug)>>

\* urlParts[i] || fallback, with i counted from 0 as in the code
UrlPart(url, i, fallback) ==
    LET urlParts == PathParts(ParseURL(url).pathname)
    IN  IF Len(urlParts) > i THEN urlParts[i + 1] ELSE fallback

\* extractMetadata: filmTitle
ExtractTitle(m, url) ==
    LET filmSlug == UrlPart(url, 2, "")
        quotedOg == QuotedMatch(m.ogTitle)
        reviewOfMatch == ReviewOfMatch(m.ogTitle)
        quotedPage == QuotedMatch(m.pageTitle)
        filmTitle ==
            IF m.filmPosterTitle # <<>> THEN m.filmPosterTitle
            ELSE IF m.filmDetailLink # <<>> THEN m.filmDetailLink
            ELSE IF m.ogTitle # <<>>
                 THEN IF quotedOg.found THEN quotedOg.group
                      ELSE IF reviewOfMatch.found
                           THEN Trim(StripYear(reviewOfMatch.group))
                      ELSE SlugToTitle(filmSlug)
            ELSE IF m.pageTitle # <<>>
                 THEN IF quotedPage.found THEN quotedPage.group
                      ELSE SlugToTitle(filmSlug)
            ELSE SlugToTitle(filmSlug)
    IN  IF filmTitle = <<>> /\ filmSlug # ""
        THEN SlugToTitle(filmSlug)
        ELSE filmTitle

\* A rating r is held as the integer 10 * r (3.5 is 35): n / 2 has at most
\* one decimal.
NoRating == [present |-> FALSE, tenths |-> 0]
Rating(tenths) == [present |-> TRUE, tenths |-> tenths]

\* ratingClass.match(/rated-(\d+)/): the digits of the first "rated-" that
\* digits follow
RatedMatch(ratingClass) ==
    LET hits == {i \in 1..Len(ratingClass) :
                    /\ ratingClass[i].text = "rated-"
                    /\ ratingClass[i].digits # <<>>}
    IN  IF hits = {} THEN NoMatch
        ELSE Match(ratingClass[Least(hits)].digits)

ExtractRatingZeroAbsent(m) ==
    IF Len(m.ratingSpans) > 0
    THEN LET ratingMatch == RatedMatch(m.ratingSpans[1])
         IN  IF ratingMatch.found /\ ratingMatch.group[1] # 0
             THEN Rating((ratingMatch.group[1] * 10) \div 2)
             ELSE NoRating
    ELSE NoRating

\* extractMetadata: rating. $('span.rating').attr('class') is the class of the
\* first element matched.
ExtractRating(m) ==
    IF Len(m.ratingSpans) > 0
    THEN LET ratingMatch == RatedMatch(m.ratingSpans[1])
         IN  IF ratingMatch.found
             THEN Rating((ratingMatch.group[1] * 10) \div 2)
             ELSE NoRating
    ELSE NoRating

\* extractMetadata: the fields the statements are about. (Of the poster
\* strategies the pages examined use the first, an address that the size
\* upgrade leaves as it is.)
ExtractMetadata(m, url) ==
    [filmTitle |-> ExtractTitle(m, url),
     authorUsername |-> UrlPart(url, 0, "unknown"),
     rating |-> ExtractRating(m),
     posterUrl |-> m.posterFromData,
     avatarUrl |-> m.avatarSrc]
NoMetadata ==
    [filmTitle |-> <<>>, authorUsername |-> "", rating |-> NoRating,
     posterUrl |-> NoUrl, avatarUrl |-> NoUrl]

\* ------------------------------------------------- parseReview, parse route
\* How the fetch of the review page settles: a page, a status that is not
\* ok, a transport failure.
PageOutcomes == {"ok", "403", "404", "500", "failed"}
\* How the fetch of an image settles, and how the external poster lookup
\* does: an image, nothing (a response that is not ok, no poster known), a
\* failure.
ImageOutcomes == {"ok", "none", "failed"}
NotFetched == "not fetched"

\* `data:${contentType};base64,${base64}` of the image at address src
DataUrl(src) == <<"data:", "image/jpeg", ";base64,">> \o src
IsDataUrl(u) == u # <<>> /\ u[1] = "data:"
\* The image the external lookup knows for a film.
TmdbImage == <<"https://", "image.tmdb.org", "/", "w500.jpg">>

\* The pages the parse route is examined on, and the bodies it is called with.
PageMarkups ==
    {MarkupOf(<<"Heat">>, <<>>, <<>>, <<>>, <<>>, ps, av) :
        ps \in {NoUrl, PosterSrc}, av \in {NoUrl, AvatarSrc}}
ParseBodies ==
    {[ok |-> TRUE, url |-> u] : u \in {ReviewUrl, PaddedUrl, ShortUrl, <<>>}}
    \cup {[ok |-> FALSE, url |-> <<>>]}
NoBody == [ok |-> FALSE, url |-> <<>>]

NoSeen == [tmdb |-> NotFetched, poster |-> NotFetched, avatar |-> NotFetched]
NoParseAnswer == [status |-> 0, code |-> "none", body |-> NoMetadata]
ParseError(status, code) ==
    [status |-> status, code |-> code, body |-> NoMetadata]

ParseInit ==
    /\ ppc = "idle"
    /\ pBody = NoBody
    /\ eUrl = <<>>
    /\ markup = NoMarkup
    /\ extracted = NoMetadata
    /\ pMetadata = NoMetadata
    /\ pSeen = NoSeen
    /\ pAnswer = NoParseAnswer

\* extractMetadata applied to a page and the URL it was fetched from.
Extract ==
    /\ ppc = "extract"
    /\ ppc' = "extracted"
    /\ extracted' = ExtractMetadata(markup, eUrl)
    /\ pMetadata' = ExtractMetadata(markup, eUrl)
    /\ UNCHANGED <<pBody, eUrl, markup, pSeen, pAnswer>>
    /\ UNCHANGED nonParseVars

\* fetchReviewPage: the code of the ReviewParseError it throws
FetchReviewPageCode(o) ==
    CASE o = "403" -> "ACCESS_DENIED"
      [] o = "404" -> "NOT_FOUND"
      [] o = "failed" -> "FETCH_FAILED"
      [] OTHER -> "HTTP_ERROR"

\* fetchImageAsBase64: the data URL, or null
FetchImageAsBase64(imageUrl, o) ==
    IF o = "ok" THEN DataUrl(imageUrl) ELSE NoUrl

\* parseReview from the settling of getMoviePosterAsBase64 to its next await:
\* the metadata, whether parseReview throws, and the await it goes on to
\* ("return": none).
AfterPoster(md) ==
    [metadata |-> md, threw |-> FALSE,
     next |-> IF md.avatarUrl # NoUrl THEN "avatar" ELSE "return"]

AfterTmdbUncaught(md, o) ==
    IF o = "ok"
    THEN AfterPoster([md EXCEPT !.posterUrl = DataUrl(TmdbImage)])
    ELSE IF o = "failed"
    THEN [metadata |-> md, threw |-> TRUE, next |-> "return"]
    ELSE IF md.posterUrl # NoUrl
    THEN [metadata |-> md, threw |-> FALSE, next |-> "poster"]
    ELSE AfterPoster(md)

AfterTmdb(md, o) ==
    IF o = "ok"
    THEN AfterPoster([md EXCEPT !.posterUrl = DataUrl(TmdbImage)])
    ELSE IF md.posterUrl # NoUrl
    THEN [metadata |-> md, threw |-> FALSE, next |-> "poster"]
    ELSE AfterPoster(md)

\* ... and from the settling of the fallback fetchImageAsBase64
AfterFallbackRefetching(md, o) ==
    LET base64Poster == FetchImageAsBase64(md.posterUrl, o)
    IN  IF base64Poster # NoUrl
        THEN [metadata |-> [md EXCEPT !.posterUrl = base64Poster],
              threw |-> FALSE, next |-> "poster"]
        ELSE AfterPoster(md)

AfterFallback(md, o) ==
    LET base64Poster == FetchImageAsBase64(md.posterUrl, o)
    IN  AfterPoster(IF base64Poster # NoUrl
                    THEN [md EXCEPT !.posterUrl = base64Poster]
                    ELSE md)

\* ... and from the settling of the avatar's fetchImageAsBase64
AfterAvatar(md, o) ==
    LET base64Avatar == FetchImageAsBase64(md.avatarUrl, o)
    IN  [metadata |-> IF base64Avatar # NoUrl
                      THEN [md EXCEPT !.avatarUrl = base64Avatar]
                      ELSE md,
         threw |-> FALSE, next |-> "return"]

\* POST of the parse route is called and runs up to `await request.json()`.
ParsePost(b) ==
    /\ ppc = "idle"
    /\ ppc' = "body"
    /\ pBody' = b
    /\ UNCHANGED <<eUrl, markup, extracted, pMetadata, pSeen, pAnswer>>
    /\ UNCHANGED nonParseVars

\* request.json() settles: the body is validated, normalizeUrl is called.
ParseBody ==
    /\ ppc = "body"
    /\ IF ~pBody.ok
       THEN ppc' = "done" /\ pAnswer' = ParseError(500, "INTERNAL_ERROR")
       ELSE IF pBody.url = <<>>
       THEN ppc' = "done" /\ pAnswer' = ParseError(400, "MISSING_URL")
       ELSE ppc' = "normalize" /\ UNCHANGED pAnswer
    /\ UNCHANGED <<pBody, eUrl, markup, extracted, pMetadata, pSeen>>
    /\ UNCHANGED nonParseVars

\* normalizeUrl settles (resp: what fetch answered, if it was called);
\* parseReview is called and runs up to `await fetchReviewPage(url)`.
ParseNormalize(resp) ==
    /\ ppc = "normalize"
    /\ IsShortLink(pBody.url) \/ resp.status = "failed"
    /\ LET res == NormalizeUrlResult(pBody.url, resp)
       IN  IF res.ok
           THEN ppc' = "page" /\ eUrl' = res.url /\ UNCHANGED pAnswer
           ELSE /\ ppc' = "done"
                /\ pAnswer' = ParseError(400, res.code)
                /\ UNCHANGED eUrl
    /\ UNCHANGED <<pBody, markup, extracted, pMetadata, pSeen>>
    /\ UNCHANGED nonParseVars

\* What POST makes of the settling of parseReview.
ParseSettled(r) ==
    IF r.threw
    THEN /\ ppc' = "done"
         /\ pAnswer' = ParseError(500, "INTERNAL_ERROR")
         /\ pMetadata' = r.metadata
    ELSE /\ pMetadata' = r.metadata
         /\ IF r.next = "return"
            THEN /\ ppc' = "done"
                 /\ pAnswer' = [status |-> 200, code |-> "none",
                                body |-> r.metadata]
            ELSE ppc' = r.next /\ UNCHANGED pAnswer

\* fetchReviewPage settles: with page m, or with a ReviewParseError. The
\* page is parsed, extractMetadata runs, getMoviePosterAsBase64 is called.
PageSettle(o, m) ==
    /\ ppc = "page"
    /\ IF o = "ok"
       THEN /\ ppc' = "tmdb"
            /\ markup' = m
            /\ extracted' = ExtractMetadata(m, eUrl)
            /\ pMetadata' = ExtractMetadata(m, eUrl)
            /\ UNCHANGED pAnswer
       ELSE /\ ppc' = "done"
            /\ pAnswer' =
                  ParseError(IF FetchReviewPageCode(o) = "NOT_FOUND"
                             THEN 404 ELSE 500,
                             FetchReviewPageCode(o))
            /\ UNCHANGED <<markup, extracted, pMetadata>>
    /\ UNCHANGED <<pBody, eUrl, pSeen>>
    /\ UNCHANGED nonParseVars

\* getMoviePosterAsBase64 settles.
TmdbSettle(o) ==
    /\ ppc = "tmdb"
    /\ pSeen' = [pSeen EXCEPT !.tmdb = o]
    /\ ParseSettled(AfterTmdb(pMetadata, o))
    /\ UNCHANGED <<pBody, eUrl, markup, extracted>>
    /\ UNCHANGED nonParseVars

\* The fetch of the extracted poster settles (in the try block after a lookup
\* that found nothing, or in the catch block after one that failed).
PosterSettle(o) ==
    /\ ppc = "poster"
    /\ pSeen' = [pSeen EXCEPT !.poster = o]
    /\ ParseSettled(AfterFallback(pMetadata, o))
    /\ UNCHANGED <<pBody, eUrl, markup, extracted>>
    /\ UNCHANGED nonParseVars

\* The fetch of the avatar settles; parseReview returns.
AvatarSettle(o) ==
    /\ ppc = "avatar"
    /\ pSeen' = [pSeen EXCEPT !.avatar = o]
    /\ ParseSettled(AfterAvatar(pMetadata, o))
    /\ UNCHANGED <<pBody, eUrl, markup, extracted>>
    /\ UNCHANGED nonParseVars

\* ------------------------------------------------- movie-database lookup
\* tmdb holds one searchMovie call: the await it is suspended at (pc), the
\* `year` and `retries` of the innermost searchMovie / fetchWithRetry call,
\* the searchMovie and fetch calls made so far (the fetches of the current
\* outermost fetchWithRetry call only), the milliseconds since that
\* fetchWithRetry call began, and what searchMovie returned.
TmdbState(p, y, r, s, a, e, res) ==
    [pc |-> p, year |-> y, retries |-> r, searches |-> s, attempts |-> a,
     elapsed |-> e, result |-> res]
TmdbIdle == TmdbState("idle", FALSE, 0, 0, 0, 0, "none")

TmdbInit == tmdb = TmdbIdle

\* searchMovie returns res.
SearchReturn(t, res) == [t EXCEPT !.pc = "done", !.result = res]

\* fetchWithRetry is called by searchMovie: the first fetch is issued and its
\* abort timer set.
FetchWithRetry(t) ==
    [t EXCEPT !.pc = "fetch", !.retries = MAX_RETRIES, !.attempts = 1,
              !.elapsed = 0]

\* searchMovie(title, year) up to its first await; hasKey: TMDB_API_KEY is
\* configured.
SearchMovie(hasKey, year) ==
    /\ tmdb.pc = "idle"
    /\ tmdb' = IF ~hasKey
               THEN SearchReturn([tmdb EXCEPT !.searches = 1], "null")
               ELSE FetchWithRetry([tmdb EXCEPT !.searches = 1, !.year = year])
    /\ UNCHANGED nonTmdbVars

\* fetch resolves d milliseconds after it was issued: fetchWithRetry returns
\* the response, and searchMovie returns null or reads the body.
FetchResponds(ok, d) ==
    /\ tmdb.pc = "fetch"
    /\ d < FETCH_TIMEOUT_MS
    /\ LET t == [tmdb EXCEPT !.elapsed = tmdb.elapsed + d]
       IN  tmdb' = IF ok THEN [t EXCEPT !.pc = "json"]
                   ELSE SearchReturn(t, "null")
    /\ UNCHANGED nonTmdbVars

\* The catch block of fetchWithRetry, with `retries` left.
FetchCaught(t) ==
    IF t.retries > 0
    THEN [t EXCEPT !.pc = "delay"]
    ELSE SearchReturn(t, "null")

\* fetch rejects d milliseconds after it was issued: a network error, or at
\* FETCH_TIMEOUT_MS the abort of its timer.
FetchRejects(d) ==
    /\ tmdb.pc = "fetch"
    /\ d <= FETCH_TIMEOUT_MS
    /\ tmdb' = FetchCaught([tmdb EXCEPT !.elapsed = tmdb.elapsed + d])
    /\ UNCHANGED nonTmdbVars

\* The retry delay is over: fetchWithRetry(url, options, retries - 1).
RetryDelayKeepingRetries ==
    /\ tmdb.pc = "delay"
    /\ tmdb' = [tmdb EXCEPT !.pc = "fetch",
                            !.attempts = tmdb.attempts + 1,
                            !.elapsed = tmdb.elapsed + RETRY_DELAY_MS]
    /\ UNCHANGED nonTmdbVars

RetryDelay ==
    /\ tmdb.pc = "delay"
    /\ tmdb' = [tmdb EXCEPT !.pc = "fetch",
                            !.retries = tmdb.retries - 1,
                            !.attempts = tmdb.attempts + 1,
                            !.elapsed = tmdb.elapsed + RETRY_DELAY_MS]
    /\ UNCHANGED nonTmdbVars

\* response.json() settles: with results, with none, or it throws.
JsonSettles(outcome) ==
    /\ tmdb.pc = "json"
    /\ tmdb' = IF outcome = "results" THEN SearchReturn(tmdb, "movie")
               ELSE IF outcome = "empty" /\ tmdb.year
               THEN FetchWithRetry([tmdb EXCEPT !.year = FALSE,
                                                !.searches = tmdb.searches + 1])
               ELSE SearchReturn(tmdb, "null")
    /\ UNCHANGED nonTmdbVars

\* ------------------------------------------------- engine lifecycle claims
\* The render call c started a launch, and the launch succeeded.
Launched(c) ==
    /\ kind[c] = "render"
    /\ pc[c] = "awaitLaunch"
    /\ launch[waitOn[c]] = "ok"

\* C34: when an engine disconnects the reference is cleared and the pool
\* emptied; a render call that then finds no reference and no stored launch
\* starts a new launch, and once its launch has succeeded it goes on with a
\* connected engine; the page a render call is given belongs to a connected
\* engine and is open.
C34_RecreatedAfterDisconnect ==
    /\ [][/\ \A e \in Engines :
               connected[e] /\ ~connected'[e]
                  => /\ browserInstance' = 0
                     /\ pagePool' = <<>>
                     /\ \A c \in Callers : page'[c] # 0 => pageClosed'[page'[c]]
          /\ \A c \in Callers :
               /\ kind[c] = "none" /\ kind'[c] = "render"
                  /\ (browserInstance = 0 \/ ~connected[browserInstance])
                  /\ browserInitPromise = 0
                  => /\ launch[waitOn'[c]] = "none"
                     /\ launch'[waitOn'[c]] = "pending"
                     /\ browserInitPromise' = waitOn'[c]
               /\ page'[c] # 0 /\ page'[c] # page[c]
                  => /\ connected'[pageBrowser'[page'[c]]]
                     /\ ~pageClosed'[page'[c]]]_vars
    /\ \A c \in 1..MaxCalls :
          Launched(c) ~> (pc[c] = "gotBrowser" /\ connected[browser[c]])

\* A render call holds a page of the second engine after the first one
\* disconnected.
C34_Witness ==
    \E c \in Callers :
        /\ kind[c] = "render"
        /\ launch[1] = "ok" /\ ~connected[1]
        /\ browser[c] = 2 /\ connected[2]
        /\ page[c] # 0 /\ pageBrowser[page[c]] = 2

\* C35: at most one engine is connected, and a connected engine that
\* getBrowser has taken over (its handler is registered) is the one
\* browserInstance refers to, in every interleaving, closeBrowser included.
C35_OneLiveEngine ==
    /\ Cardinality({e \in Engines : connected[e]}) <= 1
    /\ \A e \in handler : connected[e] => browserInstance = e

\* C36: closeBrowser, resuming after its await, clears no reference to an
\* engine other than the one it closed, no stored launch, and no pooled page
\* of another engine; and it ends with no engine of its own referenced.
C36_CloseAffectsOwnEngine ==
    [][cpc = "awaitClose" /\ cpc' = "idle"
       => /\ browserInstance \notin {0, closing}
                => browserInstance' = browserInstance
          /\ browserInitPromise # 0 => browserInitPromise' = browserInitPromise
          /\ \A p \in PoolSet :
                pageBrowser[p] # closing
                   => \E i \in 1..Len(pagePool') : pagePool'[i] = p
          /\ browserInstance' # closing]_vars

InFetchWithRetry == tmdb.pc \in {"fetch", "delay"}

RetryBounds ==
    /\ tmdb.attempts <= 1 + MAX_RETRIES
    /\ tmdb.searches <= 2
    /\ InFetchWithRetry => tmdb.attempts + tmdb.retries = 1 + MAX_RETRIES
    /\ tmdb.attempts > 0
          => /\ tmdb.elapsed >= (tmdb.attempts - 1) * RETRY_DELAY_MS
             /\ tmdb.elapsed <= tmdb.attempts * FETCH_TIMEOUT_MS
                                   + (tmdb.attempts - 1) * RETRY_DELAY_MS
    /\ tmdb.pc = "done" => tmdb.result \in {"movie", "null"}

\* C32: one fetchWithRetry call makes at most 1 + MAX_RETRIES fetches, each
\* over within FETCH_TIMEOUT_MS and RETRY_DELAY_MS after the one before, and
\* then returns (a response or null); searchMovie searches at most twice,
\* the second time without the year.
C32_BoundedRetries ==
    /\ []RetryBounds
    /\ [][tmdb'.searches > tmdb.searches /\ tmdb.searches > 0
            => tmdb.year /\ ~tmdb'.year]_vars
    /\ InFetchWithRetry ~> ~InFetchWithRetry

C32_Witness ==
    /\ tmdb.pc = "done"
    /\ tmdb.result = "null"
    /\ tmdb.searches = 2
    /\ tmdb.attempts = 1 + MAX_RETRIES
    /\ tmdb.elapsed = (1 + MAX_RETRIES) * FETCH_TIMEOUT_MS
                         + MAX_RETRIES * RETRY_DELAY_MS

\* ------------------------------------------------------------ specifications
\* The engine specifications leave the caches as constructed.
Init ==
    /\ now = 0
    /\ EngineInit
    /\ CacheInit
    /\ maxEntries = MaxCap
    /\ SessionInit
    /\ UrlInit
    /\ RateInit
    /\ RouteInit
    /\ ParseInit
    /\ TmdbInit

\* Steps of calls already started, and of the engine. (ClosePage, the
\* page.close() of a release at capacity, needs MAX_PAGES + 1 concurrent render
\* calls: it is a step of PoolNext.)
EngineStep ==
    \/ \E l \in Engines : LaunchSettle(l, TRUE)
    \/ \E l \in Engines : LaunchSettle(l, FALSE)
    \/ \E c \in Callers : GetBrowserResume(c)
    \/ \E c \in Callers : GetBrowserJoin(c)
    \/ \E e \in Engines : Disconnect(e)
    \/ \E c \in Callers : GetPage(c)
    \/ \E c \in Callers : NewPage(c)
    \/ \E c \in Callers, t \in Thrown : RenderBody(c, t)
    \/ \E c \in Callers : HealthReturn(c)

\* The whole API of playwright-renderer.ts, closeBrowser included.
Next ==
    \/ \E c \in 1..MaxCalls : RenderToImage(c)
    \/ \E c \in 1..MaxCalls : CheckBrowserHealth(c)
    \/ EngineStep
    \/ CloseBrowser
    \/ CloseBrowserResume

Spec == Init /\ [][Next]_vars

\* The service as deployed: render calls and health checks (closeBrowser has no caller).
RenderNext ==
    \/ \E c \in 1..MaxCalls : RenderToImage(c)
    \/ \E c \in 1..MaxCalls : CheckBrowserHealth(c)
    \/ EngineStep

RenderSpec == Init /\ [][RenderNext]_vars

\* ... where the continuation of a settled launch promise is run.
ReconnectSpec ==
    /\ Init
    /\ [][RenderNext]_vars
    /\ \A c \in 1..MaxCalls : WF_vars(GetBrowserResume(c))

\* The page pool under more concurrent render calls than its capacity; the
\* engine, once launched, stays connected.
PoolNext ==
    \/ \E c \in Callers : RenderToImage(c)
    \/ \E l \in Engines : LaunchSettle(l, TRUE)
    \/ \E l \in Engines : LaunchSettle(l, FALSE)
    \/ \E c \in Callers : GetBrowserResume(c)
    \/ \E c \in Callers : GetBrowserJoin(c)
    \/ \E c \in Callers : GetPage(c)
    \/ \E c \in Callers : NewPage(c)
    \/ \E c \in Callers, t \in Thrown : RenderBody(c, t)
    \/ \E c \in Callers : ClosePage(c)

PoolSpec == Init /\ [][PoolNext]_vars

\* One Cache of cache.ts under any sequence of its operations.
CacheNext ==
    \/ \E k \in Keys : CacheGet(k)
    \/ \E k \in Keys, v \in Vals : CacheSet(k, v)
    \/ CacheCleanup
    \/ CacheClear
    \/ \E d \in {1, DEFAULT_TTL - 1} : CacheTick(d)

CacheSpecInit ==
    /\ now = 0
    /\ EngineInit
    /\ CacheInit
    /\ SessionInit
    /\ UrlInit
    /\ RateInit
    /\ RouteInit
    /\ ParseInit
    /\ TmdbInit

CacheSpec == CacheSpecInit /\ [][CacheNext]_vars

\* The session cache under any sequence of its operations. An id that was
\* never issued stands for the unknown ids.
SessionNext ==
    \/ \E m \in Meta, r \in 1..NRand : CacheMetadata(m, r)
    \/ \E id \in issued \cup {NoSession} : GetCachedMetadata(id)
    \/ \E id \in issued \cup {NoSession, MissingSession} :
          RenderFromMetadata(TRUE, id)
    \/ RenderFromMetadata(FALSE, NoSession)
    \/ \E d \in {1, CACHE_TTL - 1} : SessionTick(d)

SessionSpec == CacheSpecInit /\ [][SessionNext]_vars

\* The session render path, one request at a time, up to its response.
FromMetadataNext ==
    \/ \E m \in Meta, r \in 1..NRand : CacheMetadata(m, r)
    \/ \E id \in issued \cup {NoSession, MissingSession} : SessionRequest(id)
    \/ \E outcome \in RenderOutcomes : RenderFromMetadataSettle(outcome)
    \/ \E d \in {1, CACHE_TTL - 1} : SessionTick(d)

FromMetadataSpec == CacheSpecInit /\ [][FromMetadataNext]_vars

\* One searchMovie call, with every way its fetches can settle. Each fetch
\* settles (its abort timer sees to it), each delay ends, and the body read
\* is taken to settle too.
TmdbNext ==
    \/ \E hasKey \in BOOLEAN, year \in BOOLEAN : SearchMovie(hasKey, year)
    \/ \E ok \in BOOLEAN, d \in {1, FETCH_TIMEOUT_MS - 1} : FetchResponds(ok, d)
    \/ \E d \in {1, FETCH_TIMEOUT_MS} : FetchRejects(d)
    \/ RetryDelay
    \/ \E outcome \in {"results", "empty", "throws"} : JsonSettles(outcome)

TmdbSpec == Init /\ [][TmdbNext]_vars /\ WF_vars(TmdbNext)

\* normalizeUrl called on any input, and once more on what it returned.
UrlSpecInit ==
    /\ now = 0
    /\ EngineInit
    /\ CacheInit
    /\ maxEntries = MaxCap
    /\ SessionInit
    /\ uInput \in UrlInputs
    /\ uPc = "start"
    /\ uResult = NoResult
    /\ uFetches = 0
    /\ uResp = NoResponse
    /\ uFirst = NoResult
    /\ RateInit
    /\ RouteInit
    /\ ParseInit
    /\ TmdbInit

UrlNext ==
    \/ NormalizeUrl
    \/ \E resp \in Responses : FetchSettle(resp)
    \/ NormalizeAgain

UrlSpec == UrlSpecInit /\ [][UrlNext]_vars

\* checkRateLimit called by any client at any time.
RateNext ==
    \/ \E ip \in Ips : CheckRateLimit(ip)
    \/ \E d \in {1, RATE_WINDOW - 1} : RateTick(d)

RateSpec == Init /\ [][RateNext]_vars

\* Render requests of any client, concurrent up to MaxInFlight, while time
\* passes and the cleanup interval fires.
RouteNext ==
    \/ \E r \in Slots, q \in Requests : Arrive(r, q)
    \/ \E r \in Slots : Body(r)
    \/ \E r \in Slots, resp \in RouteResponses : Normalize(r, resp)
    \/ \E r \in Slots, outcome \in ParseOutcomes : Parse(r, outcome)
    \/ \E r \in Slots, outcome \in RenderOutcomes : Render(r, outcome)
    \/ \E r \in Slots : Forget(r)
    \/ CacheCleanup
    \/ \E d \in {1, DEFAULT_TTL} : RouteTick(d)

\* The client has already been admitted RATE_LIMIT - MaxLeft times in the
\* window that started at time 0 (by requests answered MISSING_URL, which
\* leave the cache as constructed).
RouteSpecInit ==
    /\ now = 0
    /\ EngineInit
    /\ CacheInit
    /\ maxEntries = MaxCap
    /\ SessionInit
    /\ UrlInit
    /\ RouteInit
    /\ ParseInit
    /\ TmdbInit
    /\ requestCounts =
          [ip \in {GetClientIp(h) : h \in Headers} |->
              [count |-> RATE_LIMIT - MaxLeft, resetAt |-> RATE_WINDOW]]
    /\ admitted =
          [ip \in Ips |->
              IF ip \in {GetClientIp(h) : h \in Headers}
              THEN [i \in 1..(RATE_LIMIT - MaxLeft) |-> 0]
              ELSE <<>>]

RouteSpec == RouteSpecInit /\ [][RouteNext]_vars

\* The render route under requests that differ in url, preset and template
\* version.
KeyNext ==
    \/ \E r \in Slots, q \in KeyRequests : Arrive(r, q)
    \/ \E r \in Slots : Body(r)
    \/ \E r \in Slots, resp \in RouteResponses : Normalize(r, resp)
    \/ \E r \in Slots, outcome \in ParseOutcomes : Parse(r, outcome)
    \/ \E r \in Slots, outcome \in RenderOutcomes : Render(r, outcome)
    \/ \E r \in Slots : Forget(r)

KeySpec == Init /\ [][KeyNext]_vars

\* extractMetadata on any page and any URL normalizeUrl returns.
ExtractSpecInit ==
    /\ now = 0
    /\ EngineInit
    /\ CacheInit
    /\ maxEntries = MaxCap
    /\ SessionInit
    /\ UrlInit
    /\ RateInit
    /\ RouteInit
    /\ ppc = "extract"
    /\ pBody = NoBody
    /\ eUrl \in ReturnedUrls
    /\ markup \in ExtractMarkups
    /\ extracted = NoMetadata
    /\ pMetadata = NoMetadata
    /\ pSeen = NoSeen
    /\ pAnswer = NoParseAnswer
    /\ TmdbInit

ExtractNext == Extract

ExtractSpec == ExtractSpecInit /\ [][ExtractNext]_vars

\* One request to the parse route, with every way its fetches can settle.
ParseNext ==
    \/ \E b \in ParseBodies : ParsePost(b)
    \/ ParseBody
    \/ \E resp \in RouteResponses : ParseNormalize(resp)
    \/ \E o \in PageOutcomes, m \in PageMarkups : PageSettle(o, m)
    \/ \E o \in ImageOutcomes : TmdbSettle(o)
    \/ \E o \in ImageOutcomes : PosterSettle(o)
    \/ \E o \in ImageOutcomes : AvatarSettle(o)

ParseSpec == Init /\ [][ParseNext]_vars

\* A parse request next to requests that render a cached session.
EmbedNext ==
    \/ ParseNext
    \/ \E m \in Meta : CacheMetadata(m, 1)
    \/ \E id \in issued \cup {NoSession} : SessionRequest(id)
    \/ \E outcome \in RenderOutcomes : RenderFromMetadataSettle(outcome)

EmbedSpec == Init /\ [][EmbedNext]_vars



\* ------------------------------------------------------------ engine claims
InFlight(c) == pc[c] \in {"render", "closePage"}
Holders(p) == {c \in Callers : page[c] = p}
LivePages == {p \in Pages : pageBrowser[p] # 0 /\ ~pageClosed[p]}
AllSettled == \A c \in Callers : kind[c] # "none" => pc[c] = "done"

\* C1: as long as every launch succeeds and the engine stays connected, any
\* number of concurrent render calls cause exactly one chromium.launch, and
\* every call that has left getBrowser, or still awaits it, has that engine.
C1_SingleConstruction ==
    (\A l \in Engines : launch[l] \in {"none", "pending"}
                        \/ (launch[l] = "ok" /\ connected[l]))
    => /\ nLaunch <= 1
       /\ \A c \in Callers : browser[c] \in {0, 1} /\ waitOn[c] \in {0, 1}

\* Two render calls that both awaited the first launch hold its engine.
C1_Witness ==
    \E c, d \in Callers :
        /\ c # d
        /\ kind[c] = "render" /\ kind[d] = "render"
        /\ waitOn[c] = 1 /\ waitOn[d] = 1
        /\ browser[c] = 1 /\ browser[d] = 1
        /\ nLaunch = 1

\* C2: at most one engine construction (pending chromium.launch) is in flight
\* at any time, in every interleaving, closeBrowser included.
C2_OneConstructionInFlight ==
    Cardinality({l \in Engines : launch[l] = "pending"}) <= 1

\* C3: no page is held by two in-flight render calls; the pool holds no page
\* that is checked out and no page twice; every live page is idle in the pool
\* or checked out by exactly one call.
C3_ExclusivePages ==
    /\ \A c, d \in Callers : (c # d /\ page[c] # 0) => page[c] # page[d]
    /\ \A c \in Callers : page[c] # 0 => page[c] \notin PoolSet
    /\ Cardinality(PoolSet) = Len(pagePool)
    /\ \A p \in LivePages :
          \/ p \in PoolSet /\ Holders(p) = {}
          \/ p \notin PoolSet /\ Cardinality(Holders(p)) = 1

\* A page that went through the pool (created by one call, popped by another)
\* is checked out while another page is idle in the pool.
C3_Witness ==
    \E c \in Callers :
        /\ pc[c] = "render"
        /\ page[c] # 0 /\ page[c] # c
        /\ pagePool # <<>>

\* C4: the pool never holds more than MAX_PAGES pages, and once every call has
\* completed each page that was created is in the pool or closed.
C4_PoolBound ==
    /\ Len(pagePool) <= MAX_PAGES
    /\ AllSettled =>
          \A p \in Pages : pageBrowser[p] # 0 => (p \in PoolSet \/ pageClosed[p])

\* More calls than the capacity have completed: the pool is full and the
\* excess page has been closed.
C4_Witness ==
    /\ AllSettled
    /\ nStarted > MAX_PAGES
    /\ Len(pagePool) = MAX_PAGES
    /\ \E p \in Pages : pageBrowser[p] # 0 /\ pageClosed[p] /\ p \notin PoolSet

\* C5: a render call that fails after it acquired a page has released it when
\* it completes: the page is in the pool or closed.
C5_FailedRenderReleases ==
    [][\A c \in Callers :
          (InFlight(c) /\ pc'[c] = "done"
             /\ result' \in {"RENDER_TIMEOUT", "RENDER_FAILED"})
          => (page[c] \in {pagePool'[i] : i \in 1..Len(pagePool')}
              \/ pageClosed'[page[c]])]_vars

\* A render timed out and its page is back in the pool.
C5_Witness ==
    /\ result = "RENDER_TIMEOUT"
    /\ nStarted = 1
    /\ pc[1] = "done"
    /\ pagePool = <<1>>
    /\ ~pageClosed[1]

\* C6: every failure of renderToImage is a RenderError of kind RENDER_TIMEOUT
\* or RENDER_FAILED (the other outcomes are a success and the two answers of
\* the health check).
C6_OnlyRenderErrors ==
    result \in {"none", "ok", "RENDER_TIMEOUT", "RENDER_FAILED", "healthy", "degraded"}

\* C26: a call of checkBrowserHealth leaves the engine reference, an in-flight
\* construction and the page pool as they were; in particular it constructs
\* no engine when there is none.
C26_HealthCheckNoEffect ==
    [][\A c \in Callers :
          (kind'[c] = "health" /\ pc'[c] # pc[c])
          => UNCHANGED <<browserInstance, browserInitPromise, launch,
                         pagePool>>]_vars

\* ------------------------------------------------------------ extractor claims
\* What each title strategy produces on page m fetched from url, in the order
\* poster attribute, heading link text, social-preview title pattern,
\* page-title quoted substring, URL slug (<<>>: nothing).
Strategies(m, url) ==
    <<m.filmPosterTitle,
      m.filmDetailLink,
      IF QuotedMatch(m.ogTitle).found THEN QuotedMatch(m.ogTitle).group
      ELSE IF ReviewOfMatch(m.ogTitle).found
           THEN Trim(StripYear(ReviewOfMatch(m.ogTitle).group))
      ELSE <<>>,
      IF QuotedMatch(m.pageTitle).found THEN QuotedMatch(m.pageTitle).group
      ELSE <<>>,
      SlugToTitle(UrlPart(url, 2, ""))>>

\* The value of the first strategy that produces one.
FirstProduced(strategies) ==
    LET hits == {i \in 1..Len(strategies) : strategies[i] # <<>>}
    IN  IF hits = {} THEN <<>> ELSE strategies[Least(hits)]

\* C21: filmTitle is the value of the first title strategy, in the order
\* above, that produces a value: a later strategy is consulted whenever every
\* earlier one produced nothing, and the poster attribute wins over the rest.
C21_TitleCascade ==
    ppc = "extracted"
    => extracted.filmTitle = FirstProduced(Strategies(markup, eUrl))

\* C22: for every URL normalizeUrl returns and every page, filmTitle is not
\* empty, and it is the title-cased film slug of the URL when no strategy on
\* the markup yields a title.
C22_TitleNeverEmpty ==
    ppc = "extracted"
    => /\ extracted.filmTitle # <<>>
       /\ (\A i \in 1..4 : Strategies(markup, eUrl)[i] = <<>>)
          => extracted.filmTitle = SlugToTitle(UrlPart(eUrl, 2, ""))

\* The numeric suffix of the page's rating indicator, the first span.rating
\* element (found is FALSE when there is no indicator or no suffix).
RatingSuffix(m) ==
    IF m.ratingSpans = <<>> THEN NoMatch ELSE RatedMatch(m.ratingSpans[1])

\* C23: a rating indicator with numeric suffix n yields the rating n / 2, for
\* n = 0 the rating 0.0 and not "no rating"; the rating is absent exactly
\* when there is no indicator or it has no numeric suffix.
C23_RatingScaling ==
    ppc = "extracted"
    => IF RatingSuffix(markup).found
       THEN /\ extracted.rating.present
            /\ 2 * extracted.rating.tenths = 10 * RatingSuffix(markup).group[1]
       ELSE ~extracted.rating.present

C23_Witness ==
    /\ ppc = "extracted"
    /\ RatingSuffix(markup).found
    /\ RatingSuffix(markup).group[1] = 0
    /\ extracted.rating = Rating(0)

\* C24: the rating, when present, lies in [0, 5] and is a multiple of 0.5.
C24_RatingDomain ==
    (ppc = "extracted" /\ extracted.rating.present)
    => /\ extracted.rating.tenths \in 0..50
       /\ extracted.rating.tenths % 5 = 0


\* ------------------------------------------------------------ parse claims
\* The primary page has been fetched and parsed: the external poster lookup,
\* which parseReview calls right after, has settled.
PageParsed == pSeen.tmdb # NotFetched

\* C25: once the page has been fetched and parsed, parseReview returns
\* whatever the image fetches do. When the external poster lookup fails or
\* finds nothing, the extracted poster is fetched: embedded if that succeeds,
\* left as extracted if not. An avatar whose fetch fails is left as extracted.
C25_ImageFailuresNonFatal ==
    (ppc = "done" /\ PageParsed)
    => /\ pAnswer.status = 200
       /\ pAnswer.body = pMetadata
       /\ (pSeen.tmdb # "ok" /\ extracted.posterUrl # NoUrl)
          => /\ pSeen.poster # NotFetched
             /\ pMetadata.posterUrl =
                   IF pSeen.poster = "ok"
                   THEN DataUrl(extracted.posterUrl)
                   ELSE extracted.posterUrl
       /\ pSeen.avatar \in {"none", "failed"}
          => pMetadata.avatarUrl = extracted.avatarUrl

C25_Witness ==
    /\ ppc = "done"
    /\ pSeen = [tmdb |-> "failed", poster |-> "failed", avatar |-> "failed"]
    /\ pAnswer.status = 200
    /\ pAnswer.body.posterUrl = PosterSrc
    /\ pAnswer.body.avatarUrl = AvatarSrc

\* C27: what the parse route answers a metadata fetch with is the summary
\* form: it carries the session id the metadata was cached under, and neither
\* its poster nor its avatar is a data: URL.
C27_SummaryForm ==
    pAnswer.status = 200
    => /\ "sessionId" \in DOMAIN pAnswer.body
       /\ pAnswer.body.sessionId \in issued
       /\ ~IsDataUrl(pAnswer.body.posterUrl)
       /\ ~IsDataUrl(pAnswer.body.avatarUrl)

\* ------------------------------------------------------------ cache claims
\* C7: a get of a key whose entry was set at time T returns the value at any
\* time up to T + ttl - 1, and returns undefined (the entry gone) at any time
\* from T + ttl + 1 on, however often the entry was read in between.
C7_TTL ==
    \A k \in StoreKeys(store) :
        LET e == store[IndexOf(store, k)] IN
        /\ now <= e.createdAt + ttl - 1
              => /\ GetReturn(store, k, now) = e.value
                 /\ Has(GetStore(store, k, now), k)
        /\ now >= e.createdAt + ttl + 1
              => /\ GetReturn(store, k, now) = Undefined
                 /\ ~Has(GetStore(store, k, now), k)

\* An entry was returned by a get one millisecond before its TTL elapsed
\* (only a get moves lastAccessed away from the time of the set).
C7_Witness ==
    \E i \in 1..Len(store) :
        /\ now = store[i].createdAt + ttl - 1
        /\ store[i].lastAccessed = now

\* C8: a set of a new key into a cache that holds maxEntries entries removes
\* exactly one entry, one whose lastAccessed is the least of all, keeps every
\* other entry as it was, and then inserts the new entry.
C8_EvictsLeastRecentlyUsed ==
    Len(store) = maxEntries
    => \A k \in Keys \ StoreKeys(store), v \in Vals :
          LET after == SetStore(store, k, v, now) IN
          \E i \in 1..Len(store) :
             /\ \A j \in 1..Len(store) :
                   store[i].lastAccessed <= store[j].lastAccessed
             /\ Len(after) = Len(store)
             /\ SubSeq(after, 1, Len(store) - 1) = Remove(store, i)
             /\ after[Len(after)] = Entry(k, v, now)

\* An eviction that spared the entry inserted first, which was read after it
\* was set, and deleted one inserted after it.
C8_Witness ==
    /\ evicted > 1
    /\ Len(store) = maxEntries
    /\ store[1].lastAccessed > store[1].createdAt

\* C9: a Cache never holds more than maxEntries entries.
C9_SizeBound == Len(store) <= maxEntries

\* A set at capacity evicted an entry and left the cache full.
C9_Witness ==
    /\ evicted # 0
    /\ Len(store) = maxEntries
    /\ maxEntries = MaxCap

\* C28: the expiresAt of every entry is the time of its insertion plus ttl,
\* and a get that returns a value moves the lastAccessed of its entry to the
\* time of the read and changes nothing else: neither the value nor the
\* expiresAt of any entry.
C28_ReadsKeepExpiry ==
    /\ \A i \in 1..Len(store) : store[i].expiresAt = store[i].createdAt + ttl
    /\ \A k \in Keys :
          GetReturn(store, k, now) # Undefined
          => LET after == GetStore(store, k, now) IN
             /\ Len(after) = Len(store)
             /\ \A i \in 1..Len(store) :
                   /\ after[i].key = store[i].key
                   /\ after[i].value = store[i].value
                   /\ after[i].expiresAt = store[i].expiresAt
                   /\ after[i].createdAt = store[i].createdAt
                   /\ after[i].lastAccessed =
                         IF store[i].key = k THEN now
                         ELSE store[i].lastAccessed

\* An entry read after the millisecond it was set in is still held, and the
\* clock has moved on since that read.
C28_Witness ==
    \E i \in 1..Len(store) :
        /\ store[i].lastAccessed > store[i].createdAt
        /\ now > store[i].lastAccessed
        /\ GetReturn(store, store[i].key, now) = store[i].value

\* The entries of st inserted at most d milliseconds before t, in their order.
RECURSIVE InsertedWithin(_, _, _)
InsertedWithin(st, t, d) ==
    IF st = <<>> THEN <<>>
    ELSE IF t - Head(st).createdAt <= d
    THEN <<Head(st)>> \o InsertedWithin(Tail(st), t, d)
    ELSE InsertedWithin(Tail(st), t, d)

\* C29 as stated: once the TTL of an entry has elapsed (ttl milliseconds
\* have passed since its insertion) a get of its key returns undefined and
\* removes it, and cleanup leaves exactly the entries whose TTL has not
\* elapsed, unchanged.
C29_ExpiresOnceTTLElapsed ==
    /\ \A i \in 1..Len(store) :
          now - store[i].createdAt >= ttl
          => /\ GetReturn(store, store[i].key, now) = Undefined
             /\ ~Has(GetStore(store, store[i].key, now), store[i].key)
    /\ DeleteExpired(store, now) = InsertedWithin(store, now, ttl - 1)

\* C29, amended: once more than ttl milliseconds have passed since the
\* insertion of an entry a get of its key returns undefined and removes it
\* (and nothing else), and cleanup leaves exactly the entries inserted at
\* most ttl milliseconds ago, unchanged and in their order.
C29_ExpiresAfterTTL ==
    /\ \A i \in 1..Len(store) :
          now - store[i].createdAt > ttl
          => /\ GetReturn(store, store[i].key, now) = Undefined
             /\ GetStore(store, store[i].key, now) = Remove(store, i)
    /\ DeleteExpired(store, now) = InsertedWithin(store, now, ttl)

\* Two entries are held, the first inserted more than ttl ago, the second
\* exactly ttl ago.
C29_Witness ==
    /\ Len(store) = 2
    /\ now - store[1].createdAt > ttl
    /\ now - store[2].createdAt = ttl

\* C10: the session cache never holds more sessions than a fixed capacity
\* (the capacity of a Cache of cache.ts, which the claim likens it to).
C10_SessionsBounded == Cardinality(DOMAIN metadataCache) <= maxEntries

\* C11: every session id cacheMetadata returns differs from every id an
\* earlier call returned (as many distinct ids as calls), so no insertion
\* overwrites another session, also within one millisecond.
C11_FreshSessionIds == Cardinality(issued) = nIssued

\* C12 as stated: before 30 minutes have elapsed since the insertion
\* getCachedMetadata returns the stored metadata and keeps the entry; once 30
\* minutes have elapsed it returns null, the entry is gone and
\* render-from-metadata answers SESSION_EXPIRED.
C12_ExpiresOnceTTLElapsed ==
    \A id \in DOMAIN metadataCache :
        LET e == metadataCache[id]
            ret == GetCachedReturn(metadataCache, id, now)
            after == GetCachedStore(metadataCache, id, now)
        IN /\ now - e.timestamp < CACHE_TTL
                 => (ret = e.metadata /\ after = metadataCache)
           /\ now - e.timestamp >= CACHE_TTL
                 => /\ ret = Null
                    /\ id \notin DOMAIN after
                    /\ FromMetadataAnswer(TRUE, id, ret) = "SESSION_EXPIRED"

\* C12, amended: up to and including 30 minutes after the insertion every
\* issued id is held and getCachedMetadata returns the metadata stored under
\* it, leaving the Map as it is; once more than 30 minutes have elapsed it
\* returns null, the entry is gone and render-from-metadata answers
\* SESSION_EXPIRED.
C12_ExpiresAfterTTL ==
    \A id \in issued :
        LET ret == GetCachedReturn(metadataCache, id, now)
            after == GetCachedStore(metadataCache, id, now)
        IN /\ now - id[1] <= CACHE_TTL
                 => /\ id \in DOMAIN metadataCache
                    /\ metadataCache[id].timestamp = id[1]
                    /\ ret = metadataCache[id].metadata
                    /\ after = metadataCache
                    /\ FromMetadataAnswer(TRUE, id, ret) = "rendering"
           /\ now - id[1] > CACHE_TTL
                 => /\ ret = Null
                    /\ id \notin DOMAIN after
                    /\ FromMetadataAnswer(TRUE, id, ret) = "SESSION_EXPIRED"

\* A request was answered SESSION_EXPIRED for a session issued more than 30
\* minutes ago, while another session is held exactly 30 minutes after its
\* insertion.
C12_Witness ==
    /\ answer = "SESSION_EXPIRED"
    /\ \E id \in issued : now - id[1] > CACHE_TTL /\ id \notin DOMAIN metadataCache
    /\ \E id \in DOMAIN metadataCache : now - metadataCache[id].timestamp = CACHE_TTL

\* C31: on the session render path a request without session id is answered
\* MISSING_SESSION and one with an unknown or expired id SESSION_EXPIRED, both
\* without a step of the engine or the pool, and a request whose render fails
\* is answered RENDER_TIMEOUT or RENDER_FAILED: no response carries another
\* code.
C31_SessionPathCodes ==
    [][answer' # answer
       => /\ answer' \in {"rendering", "image", "MISSING_SESSION",
                          "SESSION_EXPIRED", "RENDER_TIMEOUT", "RENDER_FAILED"}
          /\ answer' \in {"MISSING_SESSION", "SESSION_EXPIRED"}
                => UNCHANGED engineVars]_vars

\* ------------------------------------------------------------ render route claims
\* The request carries a url and a valid preset in a well-formed body.
ValidTuple(q) ==
    /\ q.bodyOk
    /\ q.url # <<>>
    /\ OrDefault(q.preset, <<"square">>) \in ValidPresets

\* The image cache holds an entry for key k that has not expired.
Live(st, k, t) == Has(st, k) /\ ~Expired(st[IndexOf(st, k)], t)

Collaborators == {"normalizeUrl", "parseReview", "generateCardHtml",
                  "renderToImage", "imageCache.set"}

\* C13 as stated: a render request whose tuple has an entry in the image
\* cache (stored by an earlier successful render, neither expired nor
\* evicted) is answered X-Cache: HIT without a call of the normalizer, the
\* extractor or the engine: no step of POST answers it otherwise.
C13_SecondRequestHit ==
    [][\A r \in Slots :
          (/\ rpc[r] \in {"idle", "body"}
           /\ rpc'[r] # rpc[r]
           /\ ValidTuple(req'[r])
           /\ Live(store, CacheKeyOf(req'[r]), now))
          => \/ rpc'[r] = "body"
             \/ /\ rans'[r] = ImageAnswer("HIT")
                /\ called'[r] \cap Collaborators = {}]_vars

\* C13, amended: such a request is answered X-Cache: HIT without a call of
\* the normalizer, the extractor or the engine, unless checkRateLimit rejects
\* it on arrival (RATE_LIMITED).
C13_AdmittedRequestHit ==
    [][\A r \in Slots :
          (/\ rpc[r] \in {"idle", "body"}
           /\ rpc'[r] # rpc[r]
           /\ ValidTuple(req'[r])
           /\ Live(store, CacheKeyOf(req'[r]), now))
          => \/ rpc'[r] = "body"
             \/ /\ rpc[r] = "idle"
                /\ ~CheckRateLimitReturn(requestCounts,
                                         GetClientIp(req'[r].headers), now)
                /\ rans'[r] = ErrorAnswer(429, "RATE_LIMITED")
             \/ /\ rpc[r] = "body"
                /\ rans'[r] = ImageAnswer("HIT")
                /\ called'[r] \cap Collaborators = {}]_vars

C13_Witness ==
    \E r \in Slots :
        /\ rpc[r] = "done"
        /\ rans[r] = ImageAnswer("HIT")
        /\ called[r] = {"imageCache.get"}
        /\ Live(store, CacheKeyOf(req[r]), now)

\* C14: two render requests whose urls normalize to the same canonical URL
\* and that carry the same style options and template version compute the
\* same cache key: the key of a request is the key of the request that
\* carries, with the same options, the canonical URL its url normalizes to.
C14_KeyOfNormalizedUrl ==
    \A r \in Slots :
        (/\ rpc[r] \in {"parse", "render"}
         /\ NormalizeUrlResult(normalizedUrl[r], NoResponse)
               = Returned(normalizedUrl[r]))
        => CacheKeyOf(req[r])
              = CacheKeyOf([req[r] EXCEPT !.url = normalizedUrl[r]])

\* C16: the step of POST that answers RATE_LIMITED leaves the image cache,
\* the page pool and the engine as they were and has called no collaborator
\* (no cache read or write, normalization, fetch or render).
C16_RejectedLeavesNoTrace ==
    [][\A r \in Slots :
          (rpc[r] = "idle" /\ rans'[r].code = "RATE_LIMITED")
          => /\ UNCHANGED <<store, ttl, maxEntries>>
             /\ UNCHANGED engineVars
             /\ called'[r] = {}
             /\ rpc'[r] = "done"]_vars

C16_Witness ==
    \E r \in Slots :
        /\ rpc[r] = "done"
        /\ rans[r] = ErrorAnswer(429, "RATE_LIMITED")
        /\ called[r] = {}
        /\ Live(store, CacheKeyOf(req[r]), now)

\* An entry of st2 that st1 does not hold as it was inserted: its key is new
\* to st1, or it was written again.
Created(st1, st2) ==
    {i \in 1..Len(st2) :
        \/ ~Has(st1, st2[i].key)
        \/ st1[IndexOf(st1, st2[i].key)].createdAt # st2[i].createdAt
        \/ st1[IndexOf(st1, st2[i].key)].value # st2[i].value}

\* C30: a step of POST that changes the image cache is either the request's
\* own lookup, which creates no entry and answers no error, or the step that
\* answers X-Cache: MISS after that lookup missed and renderToImage returned,
\* which sets the entry of the request's key. So an entry is created only on
\* a miss after a successful render, and a step that answers with an error
\* leaves the cache as it is.
C30_CachedOnlyAfterRender ==
    [][\A r \in Slots :
          (rpc'[r] # rpc[r] /\ store' # store)
          => \/ /\ rpc[r] = "body"
                /\ rans'[r].status \in {0, 200}
                /\ store' = GetStore(store, CacheKeyOf(req[r]), now)
                /\ Created(store, store') = {}
             \/ /\ rpc[r] = "render"
                /\ rans'[r] = ImageAnswer("MISS")
                /\ "imageCache.get" \in called[r]
                /\ store' = SetStore(store, CacheKeyOf(req[r]), "value",
                                     now)]_vars

\* A render request failed in renderToImage while the image cache held the
\* entry of another request, and the cache holds no entry for it.
C30_Witness ==
    \E r \in Slots :
        /\ rpc[r] = "done"
        /\ rans[r].code \in {"RENDER_TIMEOUT", "RENDER_FAILED"}
        /\ store # <<>>
        /\ ~Has(store, CacheKeyOf(req[r]))

C38_KeyInjective ==
    \A r \in Slots :
        rpc[r] # "idle"
        => \A q \in KeyRequests :
              CacheKeyOf(q) = CacheKeyOf(req[r])
                 => OptionsOf(q) = OptionsOf(req[r])

\* The validation errors of normalizeUrl: those the input alone decides.
ValidationCodes ==
    {"EMPTY_URL", "INVALID_URL_FORMAT", "INVALID_PROTOCOL", "INVALID_DOMAIN",
     "NOT_REVIEW_URL"}
Validated(q) ==
    /\ q.bodyOk
    /\ q.url # <<>>
    /\ NormalizeUrlResult(q.url, NoResponse).code \notin ValidationCodes
    /\ OrDefault(q.preset, <<"square">>) \in ValidPresets

\* C40: every key in the image cache is the key of a request whose url
\* normalizeUrl accepts and whose preset is valid; a request answered from
\* the cache is such a request; and MISSING_URL and INVALID_PRESET are
\* answered with no collaborator called and the cache untouched.
C40_CachedKeysValidated ==
    [][/\ \A i \in 1..Len(store') :
             \E q \in KeyRequests :
                 CacheKeyOf(q) = store'[i].key /\ Validated(q)
       /\ \A r \in Slots :
             /\ rans'[r].xCache = "HIT" => Validated(req'[r])
             /\ rans'[r].code \in {"MISSING_URL", "INVALID_PRESET"}
                   /\ rans[r] # rans'[r]
                   => called'[r] = {} /\ store' = store]_vars

\* ------------------------------------------------------------ rate limiter claims
\* C15: for every client, any interval of 60 seconds, wherever it starts,
\* holds at most 10 admissions by checkRateLimit. (An interval holding the
\* most admissions starts at an admission.)
C15_SlidingWindow ==
    \A ip \in Ips :
        \A i \in 1..Len(admitted[ip]) :
            Cardinality({j \in i..Len(admitted[ip]) :
                           admitted[ip][j] < admitted[ip][i] + RATE_WINDOW})
                <= RATE_LIMIT

\* The admissions of a client since its current window began.
AdmittedInWindow(ip) ==
    {j \in 1..Len(admitted[ip]) :
        admitted[ip][j] >= requestCounts[ip].resetAt - RATE_WINDOW}

\* C37: for a client with a record, the count is the number of its
\* admissions since the window began and never exceeds RATE_LIMIT; up to
\* and including resetAt a call is admitted exactly while fewer than
\* RATE_LIMIT were; a rejected call leaves the Map as it is; a call after
\* resetAt is admitted and starts a window with count 1; and no call
\* touches the record of another client.
C37_FixedWindow ==
    \A ip \in Ips :
        LET ret == CheckRateLimitReturn(requestCounts, ip, now)
            st == CheckRateLimitStore(requestCounts, ip, now)
        IN  /\ DOMAIN st = DOMAIN requestCounts \cup {ip}
            /\ \A other \in DOMAIN requestCounts \ {ip} :
                  st[other] = requestCounts[other]
            /\ ~ret => st = requestCounts
            /\ ip \in DOMAIN requestCounts
                  => /\ requestCounts[ip].count = Cardinality(AdmittedInWindow(ip))
                     /\ requestCounts[ip].count \in 1..RATE_LIMIT
                     /\ now <= requestCounts[ip].resetAt
                           => /\ ret <=> Cardinality(AdmittedInWindow(ip))
                                            < RATE_LIMIT
                              /\ st[ip].resetAt = requestCounts[ip].resetAt
                              /\ ret => st[ip].count
                                           = requestCounts[ip].count + 1
                     /\ now > requestCounts[ip].resetAt
                           => /\ ret
                              /\ st[ip] = [count |-> 1,
                                           resetAt |-> now + RATE_WINDOW]

\* A client whose window was full (a call at its very end was rejected) has
\* been admitted again just after it.
C37_Witness ==
    \E ip \in Ips :
        /\ Len(admitted[ip]) = RATE_LIMIT + 1
        /\ admitted[ip][1] = 0
        /\ admitted[ip][RATE_LIMIT + 1] = RATE_WINDOW + 1
        /\ requestCounts[ip] = [count |-> 1, resetAt |-> now + RATE_WINDOW]

\* ------------------------------------------------------------ normalizer claims
\* C17: normalizeUrl is idempotent on its results: when the URL a successful
\* call returned is passed to normalizeUrl again, that call succeeds and
\* returns the same URL, also when the first call resolved a short link.
C17_Idempotent ==
    (uPc = "done" /\ uFirst.ok) => uResult = Returned(uFirst.url)

\* C18: a well-formed http(s) input whose host is none of letterboxd.com,
\* www.letterboxd.com and boxd.it fails with INVALID_DOMAIN without a fetch;
\* fetch is called only for boxd.it inputs and at most once per call.
C18_DomainBeforeNetwork ==
    LET parsedUrl == ParseURL(Trim(uInput))
    IN  /\ uFetches <= 1
        /\ uFetches = 1 => parsedUrl.ok /\ parsedUrl.hostname = "boxd.it"
        /\ (/\ parsedUrl.ok
            /\ parsedUrl.protocol \in {"http://", "https://"}
            /\ parsedUrl.hostname
                 \notin {"letterboxd.com", "www.letterboxd.com", "boxd.it"})
           => /\ uFetches = 0
              /\ uPc = "done" => uResult = Threw("INVALID_DOMAIN")

C18_Witness ==
    /\ uPc = "done"
    /\ ParseURL(Trim(uInput)).hostname = "letterboxd.com.evil.io"
    /\ ParseURL(Trim(uInput)).protocol = "https://"
    /\ uResult = Threw("INVALID_DOMAIN")
    /\ uFetches = 0

\* C19: when normalizeUrl succeeds on a boxd.it input the host of the URL it
\* returns is letterboxd.com or www.letterboxd.com; a redirect ending on any
\* other host fails with INVALID_REDIRECT, a failed fetch with REDIRECT_FAILED.
C19_RedirectHost ==
    (uPc = "done" /\ uFetches = 1) =>
        /\ uResult.ok => ParseURL(uResult.url).hostname
                            \in {"letterboxd.com", "www.letterboxd.com"}
        /\ uResp.status = "failed" => uResult = Threw("REDIRECT_FAILED")
        /\ (/\ uResp.status = "ok"
            /\ ParseURL(uResp.url).ok
            /\ ParseURL(uResp.url).hostname
                 \notin {"letterboxd.com", "www.letterboxd.com"})
           => uResult = Threw("INVALID_REDIRECT")

\* C20: every URL normalizeUrl returns has at least three path segments, the
\* second being 'film', also when it was obtained through a short-link
\* redirect; an input on letterboxd.com without that shape fails with
\* NOT_REVIEW_URL.
C20_ReviewPathShape ==
    LET parsedUrl == ParseURL(Trim(uInput))
        ReviewShape(u) ==
            LET pathParts == PathParts(ParseURL(u).pathname)
            IN  Len(pathParts) >= 3 /\ pathParts[2] = "film"
    IN  uPc = "done" =>
            /\ uResult.ok => ReviewShape(uResult.url)
            /\ (/\ parsedUrl.ok
                /\ parsedUrl.protocol \in {"http://", "https://"}
                /\ parsedUrl.hostname
                     \in {"letterboxd.com", "www.letterboxd.com"}
                /\ ~ReviewShape(Trim(uInput)))
               => uResult = Threw("NOT_REVIEW_URL")

====
